---- MODULE Spec2Model ----
(***************************************************************************)
(* A model of the package-manager core (src/core) and of the aggregate     *)
(* callers in the UI (src/ui) of PackageGet.                                *)
(*                                                                         *)
(* Text is modelled as it is in the program: a line is a sequence of       *)
(* one-character strings, and a command's standard output is a sequence of *)
(* lines (what str::lines() yields).  The parsers below work on those      *)
(* characters the way the Rust code and its regular expressions do.        *)
(***************************************************************************)
EXTENDS Integers, Sequences, FiniteSets, TLC

VARIABLES
    input,      \* cargo: the text handed to parse_cargo_install_list
    parsed,     \* cargo: whether parse_cargo_install_list has returned
    crates,     \* cargo: the Vec<InstalledCrate> it returned
    op,         \* backend: the operation called through PackageManagerType,
                \*   with its config and what the external tools answer
    procs,      \* backend: the processes the call spawned, in order
    ret,        \* backend: the CoreResult the call returned
    again,      \* backend: what the same list_installed call returned when
                \*   it was repeated at once, None if it was not
    batch,      \* batch: the page's batch mutation: what the page held, the
                \*   packages_by_manager built from it, the managers that fail
    called,     \* batch: the backend calls the task has made, in order
    outcome,    \* batch: the Result of the task, None while it runs
    join,       \* counts: the start-up count task: its config, the managers
                \*   it asks and what each manager's call returns
    done,       \* counts: the outputs of the completed futures, in the
                \*   order of completion
    counts,     \* counts: the Vec the task returned, None while it runs
    active,     \* ui: Content::actinve_content, the page the sidebar selected
    pm_config,  \* ui: App::pm_config
    tasks,      \* ui: the tasks the runtime is running, each with the
                \*   message its completion will hand to App::update
    settings,   \* ui: the Settings page (is_detecting, selecting_manager)
    insatlled_info, \* ui: App::insatlled_info
    updates_info,   \* ui: App::updates_info
    finding,        \* ui: the Finding page (search_query, last_search_query)
    finding_info,   \* ui: App::finding_info
    panicked,       \* ui: update has panicked, the application is gone
    build_info, \* go: the text `go version -m` printed for one binary
    extracted   \* go: what extract_module_path and extract_version made
                \*   of it, None before they ran

cargoVars == <<input, parsed, crates>>
backendVars == <<op, procs, ret, again>>
batchVars == <<batch, called, outcome>>
countsVars == <<join, done, counts>>
goVars == <<build_info, extracted>>
appVars == <<active, pm_config, tasks>>
pageVars == <<settings, insatlled_info, updates_info, finding, finding_info, panicked>>
uiVars == <<appVars, pageVars>>
vars == <<cargoVars, backendVars, batchVars, countsVars, goVars, uiVars>>
\* what the actions of one part leave alone
notCargo == <<backendVars, batchVars, countsVars, goVars, uiVars>>
notBackend == <<cargoVars, batchVars, countsVars, goVars, uiVars>>
notBatch == <<cargoVars, backendVars, countsVars, goVars, uiVars>>
notCounts == <<cargoVars, backendVars, batchVars, goVars, uiVars>>
notGo == <<cargoVars, backendVars, batchVars, countsVars, uiVars>>
notUi == <<cargoVars, backendVars, batchVars, countsVars, goVars>>

(***************************************************************************)
(* Bounds                                                                  *)
(***************************************************************************)
MaxLines == 4
\* the lines of a `dnf check-upgrade` report
MaxReportLines == 3
\* the lines of the other listings
MaxInstalled == 2
\* the names of one batch
MaxBatch == 2
\* the application managers of a config
MaxApps == 2
\* the dep and build lines of one binary's build information
MaxGoDeps == 2

(***************************************************************************)
(* Characters and string helpers (std::str)                                *)
(***************************************************************************)
\* a Rust string as the sequence of its characters
Chars(s) == [i \in 1..Len(s) |-> SubSeq(s, i, i)]

WS == {" ", "\t", "\n"}
DigitDot == {"0", "1", "2", "3", "4", "5", "6", "7", "8", "9", "."}

\* the longest prefix of s whose characters are all in set cs
RECURSIVE TakeWhileIn(_, _)
TakeWhileIn(s, cs) ==
    IF s = <<>> \/ Head(s) \notin cs THEN <<>>
    ELSE <<Head(s)>> \o TakeWhileIn(Tail(s), cs)

\* the longest prefix of s none of whose characters is in set cs
RECURSIVE TakeWhileNotIn(_, _)
TakeWhileNotIn(s, cs) ==
    IF s = <<>> \/ Head(s) \in cs THEN <<>>
    ELSE <<Head(s)>> \o TakeWhileNotIn(Tail(s), cs)

DropN(s, n) == SubSeq(s, n + 1, Len(s))

\* str::trim_start / trim_end / trim
TrimStart(s) == DropN(s, Len(TakeWhileIn(s, WS)))
RECURSIVE TrimEnd(_)
TrimEnd(s) ==
    IF s = <<>> \/ s[Len(s)] \notin WS THEN s
    ELSE TrimEnd(SubSeq(s, 1, Len(s) - 1))
Trim(s) == TrimEnd(TrimStart(s))

\* str::split_whitespace, collected
RECURSIVE SplitWhitespace(_)
SplitWhitespace(s) ==
    LET t == TrimStart(s)
        tok == TakeWhileNotIn(t, WS)
    IN IF t = <<>> THEN <<>>
       ELSE <<tok>> \o SplitWhitespace(DropN(t, Len(tok)))

\* str::starts_with
StartsWith(s, p) == Len(s) >= Len(p) /\ SubSeq(s, 1, Len(p)) = p

\* str::rfind(c): the last index of character c in s, 0 when absent
RECURSIVE RFind(_, _)
RFind(s, c) ==
    IF s = <<>> THEN 0
    ELSE IF s[Len(s)] = c THEN Len(s)
    ELSE RFind(SubSeq(s, 1, Len(s) - 1), c)

\* str::find(c): the first index of character c in s, 0 when absent
Find(s, c) ==
    LET p == TakeWhileNotIn(s, {c})
    IN IF Len(p) = Len(s) THEN 0 ELSE Len(p) + 1

\* str::split(c), collected: the fields between the occurrences of c
RECURSIVE Split(_, _)
Split(s, c) ==
    LET f == TakeWhileNotIn(s, {c})
    IN IF Len(f) = Len(s) THEN <<s>>
       ELSE <<f>> \o Split(DropN(s, Len(f) + 1), c)

\* whether sub occurs in s (str::contains)
Contains(s, sub) ==
    \E i \in 1..(Len(s) - Len(sub) + 1) : SubSeq(s, i, i + Len(sub) - 1) = sub

\* the text of a command's output: its lines, each ended by a newline
RECURSIVE TextOf(_)
TextOf(lines) ==
    IF lines = <<>> THEN <<>> ELSE Head(lines) \o <<"\n">> \o TextOf(Tail(lines))

Digit == {"0", "1", "2", "3", "4", "5", "6", "7", "8", "9"}
DigitVal(c) == CHOOSE n \in 0..9 : Chars("0123456789")[n + 1] = c

\* str::parse::<usize>(): None (<<>>) unless s is a non-empty run of digits
RECURSIVE DecimalValue(_)
DecimalValue(s) ==
    IF s = <<>> THEN 0 ELSE 10 * DecimalValue(SubSeq(s, 1, Len(s) - 1)) + DigitVal(s[Len(s)])
ParseUnsigned(s) ==
    IF s # <<>> /\ \A i \in 1..Len(s) : s[i] \in Digit THEN <<DecimalValue(s)>> ELSE <<>>

(***************************************************************************)
(* Option, CoreResult (lib.rs, error.rs) and spawned processes             *)
(***************************************************************************)
None == <<>>
Some(x) == <<x>>
UnwrapOr(opt, default) == IF opt = None THEN default ELSE opt[1]

Unit == <<>>
Ok(v) == [ok |-> TRUE, val |-> v, kind |-> "Ok", msg |-> <<>>]
Err(kind, msg) == [ok |-> FALSE, val |-> Unit, kind |-> kind, msg |-> msg]

\* What tokio::process::Command::output() yields: an io::Error when the
\* program cannot be spawned, else the exit code with the captured streams.
SpawnFail == [spawn |-> FALSE, code |-> 0, stdout |-> <<>>, stderr |-> <<>>]
Exit(code, stdout, stderr) ==
    [spawn |-> TRUE, code |-> code, stdout |-> stdout, stderr |-> stderr]
IoError == Chars("No such file or directory (os error 2)")
Stderr == Chars("E!")                   \* what a failing tool writes to stderr
Fails == {SpawnFail, Exit(1, <<>>, Stderr)}

\* the record of one spawned process
Proc(prog, args, out) ==
    [prog |-> prog, args |-> args, spawn |-> out.spawn, code |-> out.code,
     stderr |-> out.stderr]

(***************************************************************************)
(* Config (src/core/src/storage.rs)                                        *)
(***************************************************************************)
PackageManagerType == {"Dnf", "Flatpak", "Homebrew", "Cargo", "Go"}
ALL_APP_PACKAGE_MANAGERS == <<"Flatpak", "Homebrew", "Cargo", "Go">>

PackageManagerConfig(pm, path) == [manager_type |-> pm, custom_path |-> path]

\* Config::get_package_path
get_package_path(config, manager_type) ==
    IF /\ config.system_manager # None
       /\ config.system_manager[1].manager_type = manager_type
    THEN config.system_manager[1].custom_path
    ELSE LET hits == SelectSeq(config.app_managers,
                               LAMBDA m : m.manager_type = manager_type)
         IN IF hits = <<>> THEN None ELSE hits[1].custom_path

\* the configurations the operations are called with: the one detection
\* builds when every tool is on PATH, and one with a custom path everywhere
DetectedConfig ==
    [system_manager |-> Some(PackageManagerConfig("Dnf", None)),
     app_managers |-> [i \in 1..4 |-> PackageManagerConfig(ALL_APP_PACKAGE_MANAGERS[i], None)],
     go_bin_dir |-> None]
CustomConfig ==
    [system_manager |-> Some(PackageManagerConfig("Dnf", Some(Chars("/opt/dnf")))),
     app_managers |-> [i \in 1..4 |->
        PackageManagerConfig(ALL_APP_PACKAGE_MANAGERS[i],
                             Some(Chars("/opt/") \o Chars(ALL_APP_PACKAGE_MANAGERS[i])))],
     go_bin_dir |-> Some(Chars("/opt/gobin"))]
Configs == {DetectedConfig, CustomConfig}

(***************************************************************************)
(* CargoManager::parse_cargo_install_list  (src/core/src/pm/cargo.rs)      *)
(***************************************************************************)

\* Regex ^(\S+)\s+v([\d\.]+):$ applied to one line: \S+ takes the leading
\* run of non-blanks, \s+ the blanks after it, then a literal v, a non-empty
\* run of digits and dots, a colon, and the end of the line.
crate_line(line) ==
    LET name  == TakeWhileNotIn(line, WS)
        rest  == DropN(line, Len(name))
        body  == TrimStart(rest)
        ver   == IF Len(body) >= 2 THEN SubSeq(body, 2, Len(body) - 1) ELSE <<>>
    IN IF /\ Len(name) >= 1
          /\ Len(body) < Len(rest)
          /\ Len(body) >= 3
          /\ body[1] = "v"
          /\ body[Len(body)] = ":"
          /\ \A i \in 1..Len(ver) : ver[i] \in DigitDot
       THEN [matched |-> TRUE, name |-> name, version |-> ver]
       ELSE [matched |-> FALSE, name |-> <<>>, version |-> <<>>]

\* Regex ^\s+(\S+) applied to one line: at least one leading blank, then
\* the run of non-blanks that follows it.
bin_line(line) ==
    LET body == TrimStart(line)
        tok  == TakeWhileNotIn(body, WS)
    IN IF Len(body) < Len(line) /\ Len(tok) >= 1
       THEN [matched |-> TRUE, bin |-> tok]
       ELSE [matched |-> FALSE, bin |-> <<>>]

\* The for loop over input.lines(): result is the Vec built so far, current
\* is current_crate (<<>> for None, <<c>> for Some(c)).
RECURSIVE parse_loop(_, _, _)
parse_loop(lines, result, current) ==
    IF lines = <<>>
    THEN result \o current            \* the final current_crate.take()
    ELSE LET line == Head(lines)
             c == crate_line(line)
             b == bin_line(line)
         IN IF c.matched
            THEN parse_loop(Tail(lines), result \o current,
                            <<[name |-> c.name, version |-> c.version, bins |-> <<>>]>>)
            ELSE IF b.matched /\ current # <<>>
            THEN parse_loop(Tail(lines), result,
                            <<[current[1] EXCEPT !.bins = @ \o <<b.bin>>]>>)
            ELSE parse_loop(Tail(lines), result, current)

parse_cargo_install_list(text) == parse_loop(text, <<>>, <<>>)

(***************************************************************************)
(* DnfManager  (src/core/src/pm/dnf.rs)                                    *)
(* Every operation yields [ret |-> its CoreResult, procs |-> the processes *)
(* it spawned].  PackageUpdate is [name, current_version, new_version].    *)
(***************************************************************************)
PackageUpdate(name, current, new) ==
    [name |-> name, current_version |-> current, new_version |-> new]

\* what `rpm -q` answers for a package: db maps the known names to outcomes
RpmQuery(db, name) ==
    IF name \in DOMAIN db THEN db[name] ELSE Exit(1, <<>>, Stderr)

DnfManager_get_current_version(package_name, out) ==
    [procs |-> <<Proc(Chars("rpm"),
                      <<Chars("-q"), Chars("--queryformat"),
                        Chars("%{VERSION}-%{RELEASE}"), package_name>>, out)>>,
     ret |-> IF ~out.spawn THEN Err("CommandError", IoError)
             ELSE IF out.code = 0 THEN Ok(Trim(TextOf(out.stdout)))
             ELSE Err("ParseError",
                      Chars("Package ") \o package_name \o Chars(" not found"))]

\* parts[0].rsplit_once('.').map(|(n, _)| n).unwrap_or(parts[0])
dnf_package_name(token) ==
    IF RFind(token, ".") = 0 THEN token ELSE SubSeq(token, 1, RFind(token, ".") - 1)

\* the lines list_updates skips before splitting them
dnf_skipped_line(line) ==
    \/ line = <<>>
    \/ StartsWith(line, Chars("Updating and loading repositories:"))
    \/ StartsWith(line, Chars("Repositories loaded."))

\* seen_packages.contains(name)
dnf_seen_never(seen_packages, name) == FALSE
dnf_seen(seen_packages, name) == name \in seen_packages

\* get_current_version(..).await.unwrap_or_else(|e| "unknown")
dnf_current_or_empty(res) == IF res.ok THEN res.val ELSE <<>>
dnf_current_or_unknown(res) == IF res.ok THEN res.val ELSE Chars("unknown")

\* the for loop of list_updates over stdout.lines()
RECURSIVE dnf_updates_loop(_, _, _, _, _)
dnf_updates_loop(lines, db, updates, seen_packages, log) ==
    IF lines = <<>> THEN [ret |-> Ok(updates), procs |-> log]
    ELSE LET line  == Trim(Head(lines))
             parts == SplitWhitespace(line)
             name  == dnf_package_name(parts[1])
             cur   == DnfManager_get_current_version(name, RpmQuery(db, name))
         IN IF dnf_skipped_line(line) \/ Len(parts) < 2 \/ dnf_seen(seen_packages, name)
            THEN dnf_updates_loop(Tail(lines), db, updates, seen_packages, log)
            ELSE dnf_updates_loop(Tail(lines), db,
                    Append(updates,
                           PackageUpdate(name, dnf_current_or_unknown(cur.ret), parts[2])),
                    seen_packages \cup {name},
                    log \o cur.procs)

\* env.check: the outcome of `dnf check-upgrade`; env.rpmq: the rpm database
DnfManager_list_updates(config, env) ==
    LET path  == UnwrapOr(get_package_path(config, "Dnf"), Chars("dnf"))
        check == Proc(path, <<Chars("check-upgrade")>>, env.check)
    IN IF ~env.check.spawn
       THEN [ret |-> Err("CommandError", IoError), procs |-> <<check>>]
       ELSE dnf_updates_loop(env.check.stdout, env.rpmq, <<>>, {}, <<check>>)

\* an optional field of an rpm -qa line: absent, empty and "(none)" are None
dnf_optional_field(parts, i) ==
    IF Len(parts) >= i /\ parts[i] # <<>> /\ parts[i] # Chars("(none)")
    THEN Some(parts[i]) ELSE None

\* PackageInfo; size holds the parsed number, install_date the timestamp
\* that the program formats as %Y-%m-%d %H:%M:%S
PackageInfo(name, version, source, description, size, install_date, homepage) ==
    [name |-> name, version |-> version, source |-> source,
     description |-> description, size |-> size, install_date |-> install_date,
     homepage |-> homepage]

\* the filter_map closure of list_installed, on one line
dnf_installed_line(line) ==
    LET parts == Split(line, "\t")
    IN IF Len(parts) >= 2
       THEN Some(PackageInfo(parts[1], parts[2], "Dnf",
                    dnf_optional_field(parts, 3),
                    IF Len(parts) >= 4 THEN ParseUnsigned(parts[4]) ELSE None,
                    IF dnf_optional_field(parts, 5) = None THEN None
                    ELSE ParseUnsigned(parts[5]),
                    dnf_optional_field(parts, 6)))
       ELSE None

\* stdout.lines().filter_map(..).collect()
RECURSIVE dnf_installed_lines(_)
dnf_installed_lines(lines) ==
    IF lines = <<>> THEN <<>>
    ELSE dnf_installed_line(Head(lines)) \o dnf_installed_lines(Tail(lines))

\* out: the outcome of `rpm -qa --queryformat ...`
DnfManager_list_installed(out) ==
    [procs |-> <<Proc(Chars("rpm"), <<Chars("-qa"), Chars("--queryformat")>>, out)>>,
     ret |-> IF ~out.spawn THEN Err("CommandError", IoError)
             ELSE IF out.code # 0 THEN Err("UnknownError", Chars("rpm -qa failed"))
             ELSE Ok(dnf_installed_lines(out.stdout))]

\* the fallback of count_installed: Ok(Self::list_installed(_config).await?.len())
dnf_count_fallback(listed) == IF listed.ok THEN Ok(Len(listed.val)) ELSE listed

\* env.sh: the outcome of `sh -c "rpm -qa | wc -l"`; env.rpmqa: of `rpm -qa`
DnfManager_count_installed(env) ==
    LET sh     == Proc(Chars("sh"), <<Chars("-c"), Chars("rpm -qa | wc -l")>>, env.sh)
        listed == DnfManager_list_installed(env.rpmqa)
        count  == ParseUnsigned(Trim(TextOf(env.sh.stdout)))
    IN IF ~env.sh.spawn THEN [ret |-> Err("CommandError", IoError), procs |-> <<sh>>]
       ELSE IF env.sh.code # 0
       THEN [ret |-> dnf_count_fallback(listed.ret), procs |-> <<sh>> \o listed.procs]
       ELSE [ret |-> IF count = None
                     THEN Err("ParseError", Chars("Failed to parse count: invalid digit"))
                     ELSE Ok(count[1]),
             procs |-> <<sh>>]

\* uninstall_packages / update_packages / install_packages: one pkexec
\* process with the dnf path, the verb, -y and the names
dnf_pkexec_per_name(config, verb, package_names, out) ==
    LET path == UnwrapOr(get_package_path(config, "Dnf"), Chars("dnf"))
    IN [procs |-> [i \in 1..Len(package_names) |->
                      Proc(Chars("pkexec"),
                           <<path, Chars(verb), Chars("-y"), package_names[i]>>, out)],
        ret |-> IF ~out.spawn THEN Err("CommandError", IoError)
                ELSE IF out.code # 0
                THEN Err("UnknownError",
                         Chars("pkexec dnf ") \o Chars(verb) \o Chars(" failed: ")
                           \o out.stderr)
                ELSE Ok(Unit)]
dnf_pkexec(config, verb, package_names, out) ==
    LET path == UnwrapOr(get_package_path(config, "Dnf"), Chars("dnf"))
        args == <<path, Chars(verb), Chars("-y")>> \o package_names
    IN [procs |-> <<Proc(Chars("pkexec"), args, out)>>,
        ret |-> IF ~out.spawn THEN Err("CommandError", IoError)
                ELSE IF out.code # 0
                THEN Err("UnknownError",
                         Chars("pkexec dnf ") \o Chars(verb) \o Chars(" failed: ")
                           \o out.stderr)
                ELSE Ok(Unit)]
DnfManager_uninstall_packages(config, package_names, out) ==
    dnf_pkexec(config, "remove", package_names, out)
DnfManager_update_packages(config, package_names, out) ==
    dnf_pkexec(config, "upgrade", package_names, out)
DnfManager_install_packages(config, package_names, out) ==
    dnf_pkexec(config, "install", package_names, out)

(***************************************************************************)
(* FlatpakManager  (src/core/src/pm/flatpak.rs)                            *)
(***************************************************************************)

\* a HashMap as a function; insert replaces the value of an existing key
MapInsert(m, k, v) == [x \in DOMAIN m \cup {k} |-> IF x = k THEN v ELSE m[x]]
EmptyMap == [x \in {} |-> <<>>]

\* an iteration that stops after the first entry
MapIterFirst(m, order) ==
    LET keys == SelectSeq(order, LAMBDA k : k \in DOMAIN m)
    IN [i \in 1..(IF keys = <<>> THEN 0 ELSE 1) |-> <<keys[i], m[keys[i]]>>]

\* HashMap::into_iter: the entries in the order the hasher gives them,
\* which is any order; order is a sequence of the possible keys
MapIter(m, order) ==
    LET keys == SelectSeq(order, LAMBDA k : k \in DOMAIN m)
    IN [i \in 1..Len(keys) |-> <<keys[i], m[keys[i]]>>]

\* "<version> (<branch>)", or "branch: <branch>" without a version
flatpak_version_string(version, branch) ==
    IF version = <<>> THEN Chars("branch: ") \o branch
    ELSE version \o Chars(" (") \o branch \o Chars(")")

\* the loop of get_all_installed_info; i is the index of lines[1]
RECURSIVE flatpak_info_loop(_, _, _)
flatpak_info_loop(lines, i, info_map) ==
    IF lines = <<>> THEN info_map
    ELSE LET line  == Trim(Head(lines))
             parts == SplitWhitespace(line)
         IN IF i = 0 \/ line = <<>> \/ Len(parts) \notin {1, 2, 3}
            THEN flatpak_info_loop(Tail(lines), i + 1, info_map)
            ELSE flatpak_info_loop(Tail(lines), i + 1,
                    MapInsert(info_map, parts[1],
                        CASE Len(parts) = 3 -> <<parts[2], parts[3]>>
                          [] Len(parts) = 2 -> <<<<>>, parts[2]>>
                          [] Len(parts) = 1 -> <<<<>>, Chars("unknown")>>))

\* out: the outcome of `flatpak list --columns=application,version,branch`
FlatpakManager_get_all_installed_info(out) ==
    [procs |-> <<Proc(Chars("flatpak"),
                      <<Chars("list"), Chars("--columns=application,version,branch")>>,
                      out)>>,
     ret |-> IF ~out.spawn THEN Err("CommandError", IoError)
             ELSE IF out.code # 0 THEN Err("CommandError", Chars("flatpak list failed"))
             ELSE Ok(flatpak_info_loop(out.stdout, 0, EmptyMap))]

\* parts.get(i).map(|s| s.trim()).unwrap_or(default), i counted from 0
flatpak_column(parts, i, default) ==
    IF Len(parts) >= i + 1 THEN Trim(parts[i + 1]) ELSE default

\* a current_version that leaves the installed version out
flatpak_current_version_branch_only(installed_info, app_id) ==
    IF app_id \in DOMAIN installed_info
    THEN Chars("branch: ") \o installed_info[app_id][2]
    ELSE Chars("unknown")

\* the current_version of one update: the map's entry, or "unknown"
flatpak_current_version(installed_info, app_id) ==
    IF app_id \in DOMAIN installed_info
    THEN flatpak_version_string(installed_info[app_id][1], installed_info[app_id][2])
    ELSE Chars("unknown")

\* the for loop of list_updates over stdout.lines()
RECURSIVE flatpak_updates_loop(_, _, _)
flatpak_updates_loop(lines, installed_info, updates) ==
    IF lines = <<>> THEN updates
    ELSE LET line  == Trim(Head(lines))
             parts == Split(line, "\t")
         IN IF line = <<>>
            THEN flatpak_updates_loop(Tail(lines), installed_info, updates)
            ELSE flatpak_updates_loop(Tail(lines), installed_info,
                    Append(updates,
                        PackageUpdate(parts[1],
                            flatpak_current_version(installed_info, parts[1]),
                            flatpak_version_string(flatpak_column(parts, 1, <<>>),
                                flatpak_column(parts, 2, Chars("unknown"))))))

\* env.updates: the outcome of `flatpak list --updates ...`;
\* env.installed: of the listing get_all_installed_info runs
FlatpakManager_list_updates(config, env) ==
    LET path == UnwrapOr(get_package_path(config, "Flatpak"), Chars("flatpak"))
        upd  == Proc(path, <<Chars("list"), Chars("--updates"), Chars("--app"),
                             Chars("--columns=application,version,branch"),
                             Chars("--no-heading")>>, env.updates)
        info == FlatpakManager_get_all_installed_info(env.installed)
    IN IF ~env.updates.spawn THEN [ret |-> Err("CommandError", IoError), procs |-> <<upd>>]
       ELSE IF env.updates.code # 0
       THEN [ret |-> Err("UnknownError", Chars("flatpak list --updates failed")),
             procs |-> <<upd>>]
       ELSE IF ~info.ret.ok THEN [ret |-> info.ret, procs |-> <<upd>> \o info.procs]
       ELSE [ret |-> Ok(flatpak_updates_loop(env.updates.stdout, info.ret.val, <<>>)),
             procs |-> <<upd>> \o info.procs]

ToUpper(c) ==
    CASE c = "b" -> "B" [] c = "k" -> "K" [] c = "m" -> "M" [] c = "g" -> "G"
      [] c = "i" -> "I" [] c = "y" -> "Y" [] c = "t" -> "T" [] c = "e" -> "E"
      [] c = "s" -> "S" [] OTHER -> c

\* parse_flatpak_size: Some(<<value, multiplier>>) for "<number> <unit>";
\* the product the program computes is value * multiplier
parse_flatpak_size(size_str) ==
    LET parts == SplitWhitespace(size_str)
        unit  == [i \in 1..Len(parts[2]) |-> ToUpper(parts[2][i])]
        whole == TakeWhileIn(parts[1], Digit)
        frac  == DropN(parts[1], Len(whole))
        isf64 == /\ parts[1] # <<>> /\ parts[1] # <<".">>
                 /\ (frac = <<>> \/ (frac[1] = "." /\ \A k \in 2..Len(frac) : frac[k] \in Digit))
    IN IF Len(parts) # 2 \/ ~isf64 THEN None
       ELSE IF unit \in {Chars("B"), Chars("BYTES")} THEN Some(<<parts[1], 1>>)
       ELSE IF unit \in {Chars("KB"), Chars("KIB")} THEN Some(<<parts[1], 1024>>)
       ELSE IF unit \in {Chars("MB"), Chars("MIB")} THEN Some(<<parts[1], 1024 * 1024>>)
       ELSE IF unit \in {Chars("GB"), Chars("GIB")} THEN Some(<<parts[1], 1024 * 1024 * 1024>>)
       ELSE None

\* the loop of list_installed over stdout.lines().enumerate()
RECURSIVE flatpak_installed_loop(_, _, _)
flatpak_installed_loop(lines, i, packages) ==
    IF lines = <<>> THEN packages
    ELSE LET line  == Head(lines)
             parts == Split(line, "\t")
         IN IF i = 0 \/ Trim(line) = <<>> \/ Len(parts) < 4
            THEN flatpak_installed_loop(Tail(lines), i + 1, packages)
            ELSE flatpak_installed_loop(Tail(lines), i + 1,
                    Append(packages,
                        PackageInfo(parts[1], flatpak_version_string(parts[3], parts[4]),
                            "Flatpak",
                            IF parts[2] = <<>> THEN None ELSE Some(parts[2]),
                            IF Len(parts) >= 5 THEN parse_flatpak_size(parts[5]) ELSE None,
                            None, None)))

\* the fallback of list_installed: the entries of the map, as PackageInfo
flatpak_fallback_packages(entries) ==
    [i \in 1..Len(entries) |->
        PackageInfo(entries[i][1],
                    flatpak_version_string(entries[i][2][1], entries[i][2][2]),
                    "Flatpak", None, None, None, None)]

\* env.list: the outcome of `flatpak list --app --columns=...`;
\* env.installed: of the fallback listing; env.order: the HashMap's order
FlatpakManager_list_installed(config, env) ==
    LET path == UnwrapOr(get_package_path(config, "Flatpak"), Chars("flatpak"))
        lst  == Proc(path, <<Chars("list"), Chars("--app"),
                     Chars("--columns=application,name,version,branch,size,origin")>>,
                     env.list)
        info == FlatpakManager_get_all_installed_info(env.installed)
    IN IF ~env.list.spawn THEN [ret |-> Err("CommandError", IoError), procs |-> <<lst>>]
       ELSE IF env.list.code # 0
       THEN [ret |-> IF info.ret.ok
                     THEN Ok(flatpak_fallback_packages(MapIter(info.ret.val, env.order)))
                     ELSE info.ret,
             procs |-> <<lst>> \o info.procs]
       ELSE [ret |-> Ok(flatpak_installed_loop(env.list.stdout, 0, <<>>)),
             procs |-> <<lst>>]

\* uninstall_packages / update_packages / install_packages: one flatpak
\* process with the verb, -y and the names
flatpak_run(config, verb, package_names, out) ==
    LET path == UnwrapOr(get_package_path(config, "Flatpak"), Chars("flatpak"))
    IN [procs |-> <<Proc(path, <<Chars(verb), Chars("-y")>> \o package_names, out)>>,
        ret |-> IF ~out.spawn THEN Err("CommandError", IoError)
                ELSE IF out.code # 0
                THEN Err("UnknownError",
                         Chars("flatpak ") \o Chars(verb) \o Chars(" failed: ") \o out.stderr)
                ELSE Ok(Unit)]
FlatpakManager_uninstall_packages(config, package_names, out) ==
    flatpak_run(config, "uninstall", package_names, out)
FlatpakManager_update_packages(config, package_names, out) ==
    flatpak_run(config, "update", package_names, out)
FlatpakManager_install_packages(config, package_names, out) ==
    flatpak_run(config, "install", package_names, out)

(***************************************************************************)
(* HomebrewManager  (src/core/src/pm/homebrew.rs)                          *)
(***************************************************************************)

\* the same split taken at the first '(' instead of the last
parse_name_and_version_first(s) ==
    LET open_paren  == Find(s, "(")
        close_paren == RFind(s, ")")
    IN IF open_paren = 0 \/ close_paren = 0 \/ open_paren >= close_paren THEN None
       ELSE Some(<<Trim(SubSeq(s, 1, open_paren - 1)),
                   Trim(SubSeq(s, open_paren + 1, close_paren - 1))>>)

\* parse_name_and_version: the text before the last '(' and the text
\* between it and the last ')', both trimmed; None unless '(' precedes ')'
parse_name_and_version(s) ==
    LET open_paren  == RFind(s, "(")
        close_paren == RFind(s, ")")
    IN IF open_paren = 0 \/ close_paren = 0 \/ open_paren >= close_paren THEN None
       ELSE Some(<<Trim(SubSeq(s, 1, open_paren - 1)),
                   Trim(SubSeq(s, open_paren + 1, close_paren - 1))>>)

\* the for loop of list_updates over stdout.lines()
RECURSIVE brew_updates_loop(_, _)
brew_updates_loop(lines, updates) ==
    IF lines = <<>> THEN updates
    ELSE LET line == Trim(Head(lines))
             lt   == Find(line, "<")
             nv   == parse_name_and_version(Trim(SubSeq(line, 1, lt - 1)))
         IN IF line = <<>> \/ lt = 0 \/ nv = None
            THEN brew_updates_loop(Tail(lines), updates)
            ELSE brew_updates_loop(Tail(lines),
                    Append(updates,
                        PackageUpdate(nv[1][1], nv[1][2], Trim(DropN(line, lt)))))

\* out: the outcome of `brew outdated --verbose`
HomebrewManager_list_updates(config, out) ==
    LET path == UnwrapOr(get_package_path(config, "Homebrew"), Chars("brew"))
    IN [procs |-> <<Proc(path, <<Chars("outdated"), Chars("--verbose")>>, out)>>,
        ret |-> IF ~out.spawn THEN Err("CommandError", IoError)
                ELSE IF out.code # 0
                THEN Err("UnknownError", Chars("brew outdated --verbose failed"))
                ELSE Ok(brew_updates_loop(out.stdout, <<>>))]

\* the loop of get_all_installed_info over stdout.lines()
RECURSIVE brew_info_loop(_, _)
brew_info_loop(lines, info_map) ==
    IF lines = <<>> THEN info_map
    ELSE LET parts == SplitWhitespace(Trim(Head(lines)))
         IN IF Len(parts) < 2 THEN brew_info_loop(Tail(lines), info_map)
            ELSE brew_info_loop(Tail(lines),
                                MapInsert(info_map, parts[1], parts[Len(parts)]))

\* out: the outcome of `brew list --versions`
HomebrewManager_get_all_installed_info(out) ==
    [procs |-> <<Proc(Chars("brew"), <<Chars("list"), Chars("--versions")>>, out)>>,
     ret |-> IF ~out.spawn THEN Err("CommandError", IoError)
             ELSE IF out.code # 0
             THEN Err("CommandError", Chars("brew list --versions failed"))
             ELSE Ok(brew_info_loop(out.stdout, EmptyMap))]

\* JSON values: an object is a function from its keys (strings) to values,
\* an array a record [array |-> <<..>>], a string a record [str |-> chars].
\* serde_json::from_str is given by its value on the texts decoded here;
\* every other text (the empty one included) is not valid JSON.
JsonStr(s) == [str |-> Chars(s)]
JsonArr(a) == [array |-> a]
JsonTexts ==
    << <<Chars("{\"formulae\":[],\"casks\":[]}"),
         [formulae |-> JsonArr(<<>>), casks |-> JsonArr(<<>>)]>>,
       <<Chars("{\"formulae\":[{\"name\":\"git\",\"versions\":{\"stable\":\"2.44\"},\"desc\":\"vcs\",\"homepage\":\"g.it\"}],\"casks\":[{\"token\":\"vlc\",\"version\":\"3.0\"}]}"),
         [formulae |-> JsonArr(<<[name |-> JsonStr("git"),
                                  versions |-> [stable |-> JsonStr("2.44")],
                                  desc |-> JsonStr("vcs"),
                                  homepage |-> JsonStr("g.it")]>>),
          casks |-> JsonArr(<<[token |-> JsonStr("vlc"), version |-> JsonStr("3.0")]>>)]>>,
       <<Chars("{\"formulae\":[{\"name\":\"jq\",\"version\":\"1.7\"}]}"),
         [formulae |-> JsonArr(<<[name |-> JsonStr("jq"), version |-> JsonStr("1.7")]>>)]>> >>

serde_json_from_str(text) ==
    LET hits == SelectSeq(JsonTexts, LAMBDA t : t[1] = Trim(text))
    IN IF hits = <<>>
       THEN Err("SerializationError", Chars("expected value at line 1 column 1"))
       ELSE Ok(hits[1][2])

\* value[key].as_str(): Some(chars) when value is an object holding a string
\* under key, else None
JsonAsStr(value, key) ==
    IF key \in DOMAIN value /\ DOMAIN value[key] = {"str"} THEN Some(value[key].str)
    ELSE None
\* value[key].as_array(): the elements, or <<>> when there is no such array
\* (the `if let Some(..)` around each loop)
JsonElements(value, key) ==
    IF key \in DOMAIN value /\ DOMAIN value[key] = {"array"} THEN value[key].array
    ELSE <<>>
JsonObject(value, key) == IF key \in DOMAIN value THEN value[key] ELSE EmptyMap

OrElse(opt, other) == IF opt = None THEN other ELSE opt

brew_formula(formula) ==
    PackageInfo(UnwrapOr(JsonAsStr(formula, "name"), <<>>),
                UnwrapOr(OrElse(JsonAsStr(JsonObject(formula, "versions"), "stable"),
                                JsonAsStr(formula, "version")),
                         Chars("unknown")),
                "Homebrew", JsonAsStr(formula, "desc"), None, None,
                JsonAsStr(formula, "homepage"))
brew_cask(cask) ==
    PackageInfo(UnwrapOr(JsonAsStr(cask, "token"), <<>>),
                UnwrapOr(JsonAsStr(cask, "version"), Chars("unknown")),
                "Homebrew", JsonAsStr(cask, "desc"), None, None,
                JsonAsStr(cask, "homepage"))

\* the packages built from the decoded JSON: formulae, then casks
brew_json_packages(json) ==
    [i \in 1..Len(JsonElements(json, "formulae")) |->
        brew_formula(JsonElements(json, "formulae")[i])]
    \o [i \in 1..Len(JsonElements(json, "casks")) |->
        brew_cask(JsonElements(json, "casks")[i])]

brew_fallback_packages(entries) ==
    [i \in 1..Len(entries) |->
        PackageInfo(entries[i][1], entries[i][2], "Homebrew", None, None, None, None)]

\* env.info: the outcome of `brew info --json=v2 --installed`;
\* env.versions: of `brew list --versions`; env.order: the HashMap's order
HomebrewManager_list_installed(config, env) ==
    LET path == UnwrapOr(get_package_path(config, "Homebrew"), Chars("brew"))
        inf  == Proc(path, <<Chars("info"), Chars("--json=v2"), Chars("--installed")>>,
                     env.info)
        fall == HomebrewManager_get_all_installed_info(env.versions)
        json == serde_json_from_str(TextOf(env.info.stdout))
    IN IF ~env.info.spawn THEN [ret |-> Err("CommandError", IoError), procs |-> <<inf>>]
       ELSE IF env.info.code # 0
       THEN [ret |-> IF fall.ret.ok
                     THEN Ok(brew_fallback_packages(MapIter(fall.ret.val, env.order)))
                     ELSE fall.ret,
             procs |-> <<inf>> \o fall.procs]
       ELSE [ret |-> IF json.ok THEN Ok(brew_json_packages(json.val)) ELSE json,
             procs |-> <<inf>>]

\* out: the outcome of `brew list`
HomebrewManager_count_installed(config, out) ==
    LET path == UnwrapOr(get_package_path(config, "Homebrew"), Chars("brew"))
    IN [procs |-> <<Proc(path, <<Chars("list")>>, out)>>,
        ret |-> IF ~out.spawn THEN Err("CommandError", IoError)
                ELSE IF out.code # 0 THEN Ok(0)
                ELSE Ok(Len(SelectSeq(out.stdout, LAMBDA l : Trim(l) # <<>>)))]

\* The loop shared in shape by the batch operations of Homebrew, Cargo and
\* Go: one process per name, in order, stopping at the first that fails.
\* argv[i] holds the arguments and outs[i] the outcome of the process for
\* names[i].
\* a loop that goes on to the names after a failing one
per_name_loop_all(path, argv, tool, names, outs, i, log) ==
    LET bad == {k \in i..Len(names) : ~outs[k].spawn \/ outs[k].code # 0}
        k   == CHOOSE b \in bad : \A c \in bad : b <= c
    IN [procs |-> log \o [j \in 1..(Len(names) - i + 1) |->
                             Proc(path, argv[i + j - 1], outs[i + j - 1])],
        ret |-> IF bad = {} THEN Ok(Unit)
                ELSE IF ~outs[k].spawn THEN Err("CommandError", IoError)
                ELSE Err("UnknownError",
                         Chars(tool) \o Chars(" failed for ") \o names[k]
                           \o Chars(": ") \o outs[k].stderr)]

RECURSIVE per_name_loop(_, _, _, _, _, _, _)
per_name_loop(path, argv, tool, names, outs, i, log) ==
    IF i > Len(names) THEN [ret |-> Ok(Unit), procs |-> log]
    ELSE LET p == Proc(path, argv[i], outs[i])
         IN IF ~outs[i].spawn
            THEN [ret |-> Err("CommandError", IoError), procs |-> Append(log, p)]
            ELSE IF outs[i].code # 0
            THEN [ret |-> Err("UnknownError",
                              Chars(tool) \o Chars(" failed for ") \o names[i]
                                \o Chars(": ") \o outs[i].stderr),
                  procs |-> Append(log, p)]
            ELSE per_name_loop(path, argv, tool, names, outs, i + 1, Append(log, p))

\* outs: the outcomes of the processes, one per name
HomebrewManager_uninstall_packages(config, package_names, outs) ==
    per_name_loop(UnwrapOr(get_package_path(config, "Homebrew"), Chars("brew")),
                  [i \in 1..Len(package_names) |-> <<Chars("uninstall"), package_names[i]>>],
                  "brew uninstall", package_names, outs, 1, <<>>)
HomebrewManager_update_packages(config, package_names, outs) ==
    per_name_loop(UnwrapOr(get_package_path(config, "Homebrew"), Chars("brew")),
                  [i \in 1..Len(package_names) |-> <<Chars("upgrade"), package_names[i]>>],
                  "brew upgrade", package_names, outs, 1, <<>>)
HomebrewManager_install_packages(config, package_names, outs) ==
    per_name_loop(UnwrapOr(get_package_path(config, "Homebrew"), Chars("brew")),
                  [i \in 1..Len(package_names) |-> <<Chars("install"), package_names[i]>>],
                  "brew install", package_names, outs, 1, <<>>)

(***************************************************************************)
(* CargoManager  (src/core/src/pm/cargo.rs)                                *)
(***************************************************************************)

\* what crates.io answers for a crate: registry maps the known names to
\* Ok(..) or Err(..); a name it does not know is a failed request
RegistryQuery(registry, name) ==
    IF name \in DOMAIN registry THEN registry[name]
    ELSE Err("UnknownError", Chars("Failed to fetch crate info for ") \o name)

\* the test of list_updates on one installed crate
cargo_is_update(latest, inst) == latest.ok /\ latest.val # inst.version

\* the for loop of list_updates over the installed crates
RECURSIVE cargo_updates_loop(_, _, _)
cargo_updates_loop(installed, registry, updates) ==
    IF installed = <<>> THEN updates
    ELSE LET inst   == Head(installed)
             latest == RegistryQuery(registry, inst.name)
         IN IF cargo_is_update(latest, inst)
            THEN cargo_updates_loop(Tail(installed), registry,
                    Append(updates, PackageUpdate(inst.name, inst.version, latest.val)))
            ELSE cargo_updates_loop(Tail(installed), registry, updates)

\* the start shared by list_updates, get_current_version and list_installed:
\* run `cargo install --list` and parse it
cargo_install_list(config, out) ==
    LET path == UnwrapOr(get_package_path(config, "Cargo"), Chars("cargo"))
    IN [procs |-> <<Proc(path, <<Chars("install"), Chars("--list")>>, out)>>,
        ret |-> IF ~out.spawn THEN Err("CommandError", IoError)
                ELSE IF out.code # 0
                THEN Err("UnknownError", Chars("cargo install --list failed"))
                ELSE Ok(parse_cargo_install_list(out.stdout))]

\* env.list: the outcome of `cargo install --list`; env.latest: what
\* get_latest_version yields per crate (crate.max_version from crates.io)
CargoManager_list_updates(config, env) ==
    LET listed == cargo_install_list(config, env.list)
    IN [procs |-> listed.procs,
        ret |-> IF listed.ret.ok
                THEN Ok(cargo_updates_loop(listed.ret.val, env.latest, <<>>))
                ELSE listed.ret]

\* env.list: as above; env.info: what get_crate_info yields per crate, a
\* pair <<description, homepage>> of options
CargoManager_list_installed(config, env) ==
    LET listed == cargo_install_list(config, env.list)
        info(c) == LET r == RegistryQuery(env.info, c.name)
                   IN IF r.ok THEN r.val ELSE <<None, None>>
    IN [procs |-> listed.procs,
        ret |-> IF listed.ret.ok
                THEN Ok([i \in 1..Len(listed.ret.val) |->
                         PackageInfo(listed.ret.val[i].name, listed.ret.val[i].version,
                                     "Cargo", info(listed.ret.val[i])[1], None, None,
                                     info(listed.ret.val[i])[2])])
                ELSE listed.ret]

CargoManager_uninstall_packages(config, package_names, outs) ==
    per_name_loop(UnwrapOr(get_package_path(config, "Cargo"), Chars("cargo")),
                  [i \in 1..Len(package_names) |-> <<Chars("uninstall"), package_names[i]>>],
                  "cargo uninstall", package_names, outs, 1, <<>>)
CargoManager_update_packages(config, package_names, outs) ==
    per_name_loop(UnwrapOr(get_package_path(config, "Cargo"), Chars("cargo")),
                  [i \in 1..Len(package_names) |->
                      <<Chars("install"), Chars("--force"), package_names[i]>>],
                  "cargo install --force", package_names, outs, 1, <<>>)
CargoManager_install_packages(config, package_names, outs) ==
    per_name_loop(UnwrapOr(get_package_path(config, "Cargo"), Chars("cargo")),
                  [i \in 1..Len(package_names) |-> <<Chars("install"), package_names[i]>>],
                  "cargo install", package_names, outs, 1, <<>>)

(***************************************************************************)
(* GoManager  (src/core/src/pm/go.rs) and Config::get_go_bin_dir           *)
(* osenv holds the environment variables GOBIN, GOPATH and HOME as         *)
(* options; fs maps a directory to the entries read_dir yields there (a    *)
(* directory outside DOMAIN fs cannot be read).                            *)
(***************************************************************************)

\* a resolution that asks GOPATH before GOBIN
get_go_bin_dir_gopath_first(config, osenv) ==
    IF config.go_bin_dir # None THEN config.go_bin_dir[1]
    ELSE IF osenv.GOPATH # None THEN osenv.GOPATH[1] \o Chars("/bin")
    ELSE IF osenv.GOBIN # None THEN osenv.GOBIN[1]
    ELSE IF osenv.HOME # None THEN osenv.HOME[1] \o Chars("/go/bin")
    ELSE Chars("go/bin")

\* Config::get_go_bin_dir
get_go_bin_dir(config, osenv) ==
    IF config.go_bin_dir # None THEN config.go_bin_dir[1]
    ELSE IF osenv.GOBIN # None THEN osenv.GOBIN[1]
    ELSE IF osenv.GOPATH # None THEN osenv.GOPATH[1] \o Chars("/bin")
    ELSE IF osenv.HOME # None THEN osenv.HOME[1] \o Chars("/go/bin")
    ELSE Chars("go/bin")

\* list_installed_binaries: the regular files of the bin directory
list_installed_binaries(config, osenv, fs) ==
    LET bin_dir == get_go_bin_dir(config, osenv)
        entries == IF bin_dir \in DOMAIN fs THEN fs[bin_dir] ELSE <<>>
        files   == SelectSeq(entries, LAMBDA e : e.is_file)
    IN [i \in 1..Len(files) |->
          [name |-> files[i].name, path |-> bin_dir \o Chars("/") \o files[i].name]]

\* what a go subcommand answers about a key (a binary path or a module)
GoQuery(answers, key) ==
    IF key \in DOMAIN answers THEN answers[key] ELSE Exit(1, <<>>, Stderr)

\* get_binary_info: `go version -m <binary_path>`
get_binary_info(binary_path, out) ==
    [procs |-> <<Proc(Chars("go"), <<Chars("version"), Chars("-m"), binary_path>>, out)>>,
     ret |-> IF ~out.spawn THEN Err("CommandError", IoError)
             ELSE IF out.code # 0
             THEN Err("UnknownError",
                      Chars("Failed to get info for binary: ") \o binary_path)
             ELSE Ok(TextOf(out.stdout))]

\* get_latest_version: `go list -m -versions <module>`, the last token
get_latest_version(package_name, out) ==
    [procs |-> <<Proc(Chars("go"), <<Chars("list"), Chars("-m"), Chars("-versions"),
                                     package_name>>, out)>>,
     ret |-> IF ~out.spawn THEN Err("CommandError", IoError)
             ELSE IF out.code # 0
             THEN Err("UnknownError",
                      Chars("Failed to get versions for package: ") \o package_name)
             ELSE LET toks == SplitWhitespace(TextOf(out.stdout))
                  IN Ok(IF toks = <<>> THEN <<>> ELSE toks[Len(toks)])]

\* Regex path\s+([^\s]+) searched in info from position i on: the
\* leftmost position where it matches decides
go_path_token(info, k) == TakeWhileNotIn(TrimStart(DropN(info, k + 3)), WS)
go_path_search(info, i) ==
    LET hits == {k \in i..(Len(info) - 4) :
                    /\ SubSeq(info, k, k + 3) = Chars("path")
                    /\ info[k + 4] \in WS
                    /\ go_path_token(info, k) # <<>>}
    IN IF hits = {} THEN None
       ELSE Some(go_path_token(info, CHOOSE k \in hits : \A h \in hits : k <= h))
extract_module_path(info) == go_path_search(info, 1)

\* v[0-9]+\.[0-9]+\.[0-9]+[^\s]* against a whole token
go_semver_token(tok) ==
    LET d1 == TakeWhileIn(DropN(tok, 1), Digit)
        r1 == DropN(tok, 1 + Len(d1))
        d2 == TakeWhileIn(DropN(r1, 1), Digit)
        r2 == DropN(r1, 1 + Len(d2))
        d3 == TakeWhileIn(DropN(r2, 1), Digit)
    IN /\ tok # <<>> /\ tok[1] = "v" /\ d1 # <<>>
       /\ r1 # <<>> /\ r1[1] = "." /\ d2 # <<>>
       /\ r2 # <<>> /\ r2[1] = "." /\ d3 # <<>>

\* Regex mod\s+[^\s]+\s+(v[0-9]+\.[0-9]+\.[0-9]+[^\s]*) searched from i on:
\* the leftmost position where it matches decides
go_mod_rest(info, k) ==
    LET after == TrimStart(DropN(info, k + 2))
    IN DropN(after, Len(TakeWhileNotIn(after, WS)))
go_mod_token(info, k) == TakeWhileNotIn(TrimStart(go_mod_rest(info, k)), WS)
go_mod_search(info, i) ==
    LET hits == {k \in i..(Len(info) - 3) :
                    /\ SubSeq(info, k, k + 2) = Chars("mod")
                    /\ info[k + 3] \in WS
                    /\ TrimStart(DropN(info, k + 2)) # <<>>
                    /\ go_mod_rest(info, k) # <<>>
                    /\ go_semver_token(go_mod_token(info, k))}
    IN IF hits = {} THEN None
       ELSE Some(go_mod_token(info, CHOOSE k \in hits : \A h \in hits : k <= h))
\* the version cut down to v<major>.<minor>.<patch>
extract_version_core(info) ==
    LET found == go_mod_search(info, 1)
        tok   == found[1]
        d1    == TakeWhileIn(DropN(tok, 1), Digit)
        d2    == TakeWhileIn(DropN(tok, 2 + Len(d1)), Digit)
        d3    == TakeWhileIn(DropN(tok, 3 + Len(d1) + Len(d2)), Digit)
    IN IF found = None THEN None
       ELSE Some(SubSeq(tok, 1, 3 + Len(d1) + Len(d2) + Len(d3)))
extract_version(info) == go_mod_search(info, 1)

\* the test of list_updates on one binary's versions
go_is_update(local_version, latest_version) ==
    /\ local_version # None
    /\ local_version[1] # latest_version
    /\ latest_version # <<>>

\* the for loop of list_updates over the binaries
RECURSIVE go_updates_loop(_, _, _, _)
go_updates_loop(binaries, env, updates, log) ==
    IF binaries = <<>> THEN [ret |-> Ok(updates), procs |-> log]
    ELSE LET binary == Head(binaries)
             info   == get_binary_info(binary.path, GoQuery(env.version, binary.path))
             module == IF info.ret.ok THEN extract_module_path(info.ret.val) ELSE None
             latest == get_latest_version(module[1], GoQuery(env.versions, module[1]))
         IN IF module = None
            THEN go_updates_loop(Tail(binaries), env, updates, log \o info.procs)
            ELSE IF latest.ret.ok
                    /\ go_is_update(extract_version(info.ret.val), latest.ret.val)
            THEN go_updates_loop(Tail(binaries), env,
                    Append(updates,
                           PackageUpdate(binary.name, extract_version(info.ret.val)[1],
                                         latest.ret.val)),
                    log \o info.procs \o latest.procs)
            ELSE go_updates_loop(Tail(binaries), env, updates,
                                 log \o info.procs \o latest.procs)

\* env.osenv, env.fs: see above; env.version: what `go version -m` answers
\* per binary path; env.versions: what `go list -m -versions` answers per module
GoManager_list_updates(config, env) ==
    go_updates_loop(list_installed_binaries(config, env.osenv, env.fs), env, <<>>, <<>>)

\* the for loop of list_installed over the binaries
RECURSIVE go_installed_loop(_, _, _, _)
go_installed_loop(binaries, env, packages, log) ==
    IF binaries = <<>> THEN [ret |-> Ok(packages), procs |-> log]
    ELSE LET binary == Head(binaries)
             info   == get_binary_info(binary.path, GoQuery(env.version, binary.path))
         IN IF info.ret.ok /\ extract_module_path(info.ret.val) # None
            THEN go_installed_loop(Tail(binaries), env,
                    Append(packages,
                        PackageInfo(binary.name,
                                    UnwrapOr(extract_version(info.ret.val), Chars("unknown")),
                                    "Go", None, None, None, None)),
                    log \o info.procs)
            ELSE go_installed_loop(Tail(binaries), env, packages, log \o info.procs)

GoManager_list_installed(config, env) ==
    go_installed_loop(list_installed_binaries(config, env.osenv, env.fs), env, <<>>, <<>>)

\* name.split('/').next_back().unwrap_or(name)
go_binary_name(name) == Split(name, "/")[Len(Split(name, "/"))]

\* the directory uninstall_packages removes from: GOBIN, else GOPATH/bin,
\* else $HOME/go/bin
go_uninstall_dir(osenv) ==
    IF osenv.GOBIN # None THEN osenv.GOBIN[1]
    ELSE IF osenv.GOPATH # None THEN osenv.GOPATH[1] \o Chars("/bin")
    ELSE UnwrapOr(osenv.HOME, <<>>) \o Chars("/go/bin")

\* whether dir holds a file called name
FileExists(fs, dir, name) ==
    dir \in DOMAIN fs /\ \E i \in 1..Len(fs[dir]) : fs[dir][i].name = name

\* the for loop of uninstall_packages: remove_file per name, stopping at
\* the first failure; removed lists the paths removed so far
RECURSIVE go_uninstall_loop(_, _, _, _)
go_uninstall_loop(gobin, fs, names, removed) ==
    IF names = <<>> THEN [ret |-> Ok(Unit), procs |-> <<>>, removed |-> removed]
    ELSE LET binary_name == go_binary_name(Head(names))
             binary_path == gobin \o Chars("/") \o binary_name
         IN IF FileExists(fs, gobin, binary_name) /\ binary_path \notin removed
            THEN go_uninstall_loop(gobin, fs, Tail(names), removed \cup {binary_path})
            ELSE [ret |-> Err("UnknownError",
                              Chars("Failed to remove Go binary ") \o binary_name
                                \o Chars(": ") \o IoError),
                  procs |-> <<>>, removed |-> removed]

GoManager_uninstall_packages(config, package_names, env) ==
    go_uninstall_loop(go_uninstall_dir(env.osenv), env.fs, package_names, {})

\* `go install <name>@latest`, or <name> as given when it holds an '@'
go_install_path(name) == IF Find(name, "@") # 0 THEN name ELSE name \o Chars("@latest")

GoManager_update_packages(config, package_names, outs) ==
    per_name_loop(UnwrapOr(get_package_path(config, "Go"), Chars("go")),
                  [i \in 1..Len(package_names) |->
                      <<Chars("install"), go_install_path(package_names[i])>>],
                  "go install", package_names, outs, 1, <<>>)
GoManager_install_packages(config, package_names, outs) ==
    per_name_loop(UnwrapOr(get_package_path(config, "Go"), Chars("go")),
                  [i \in 1..Len(package_names) |->
                      <<Chars("install"), go_install_path(package_names[i])>>],
                  "go install", package_names, outs, 1, <<>>)

(***************************************************************************)
(* The texts the parser is run on: lines of `cargo install --list`.        *)
(***************************************************************************)
CargoLines ==
    { Chars("a v1.0:"),        \* a registry crate
      Chars("b v2:"),
      Chars("c v1 (/p):"),     \* a crate installed from a local path
      Chars("d v1-rc:"),       \* a registry crate with a pre-release version
      Chars("  x"),            \* binaries
      Chars(" y"),
      Chars("") }

SeqsUpTo(S, n) == UNION {[1..k -> S] : k \in 0..n}

\* no backend call is in progress
NoCall == [pm |-> "none", name |-> "none", config |-> DetectedConfig,
           names |-> <<>>, env |-> <<>>]
BackendIdle == op = NoCall /\ procs = <<>> /\ ret = Ok(Unit) /\ again = None
\* the parser is not in use
CargoIdle == input = <<>> /\ parsed = TRUE /\ crates = <<>>
\* no page runs a batch mutation
NoBatch == [page |-> "none", method |-> "none", managers |-> {}, listing |-> EmptyMap,
            selected |-> {}, clicks |-> {}, groups |-> EmptyMap, fails |-> {}]
BatchIdle == batch = NoBatch /\ called = <<>> /\ outcome = None
\* no count task runs
NoJoin == [task |-> "none", config |-> DetectedConfig, pms |-> <<>>, results |-> <<>>]
CountsIdle == join = NoJoin /\ done = <<>> /\ counts = None
\* no build information is being read
GoIdle == build_info = <<>> /\ extracted = None
\* the window as App::new and the Default impls make it, nothing running
DefaultConfig == [system_manager |-> None, app_managers |-> <<>>, go_bin_dir |-> None]
DefaultSettings == [is_detecting |-> FALSE, selecting_manager |-> None]
DefaultInstalledInfo ==
    [installed_packages |-> EmptyMap, selected_managers |-> {}, loading_installed |-> {},
     is_loading_count |-> FALSE, has_loading_count |-> FALSE,
     selected_packages |-> {}, is_removing |-> FALSE]
DefaultUpdatesInfo ==
    [updates_by_manager |-> EmptyMap, selected_managers |-> {}, loading_updates |-> {},
     is_loading_count |-> FALSE, has_loading_count |-> FALSE,
     selected_packages |-> {}, is_updating |-> FALSE]
DefaultFinding == [search_query |-> <<>>, last_search_query |-> <<>>]
DefaultFindingInfo ==
    [search_results |-> EmptyMap, selected_managers |-> {}, searching_managers |-> {},
     selected_packages |-> {}, is_installing |-> FALSE]
PagesDefault ==
    /\ panicked = FALSE
    /\ settings = DefaultSettings
    /\ insatlled_info = DefaultInstalledInfo
    /\ updates_info = DefaultUpdatesInfo
    /\ finding = DefaultFinding
    /\ finding_info = DefaultFindingInfo
UiIdle == active = "Finding" /\ pm_config = DefaultConfig /\ tasks = <<>> /\ PagesDefault

CargoInit ==
    /\ input \in SeqsUpTo(CargoLines, MaxLines)
    /\ parsed = FALSE
    /\ crates = <<>>
    /\ BackendIdle /\ BatchIdle /\ CountsIdle /\ GoIdle /\ UiIdle

ParseCargo ==
    /\ ~parsed
    /\ crates' = parse_cargo_install_list(input)
    /\ parsed' = TRUE
    /\ UNCHANGED <<input, notCargo>>

SpecCargo == CargoInit /\ [][ParseCargo]_vars

(***************************************************************************)
(* The build information of one Go binary: what `go version -m` prints     *)
(* (the binary's path and toolchain, then the path, mod, dep and build     *)
(* lines of debug.BuildInfo, in that order), and the two functions that    *)
(* read the module path and the version out of it.                         *)
(***************************************************************************)
GoHeaderLine == Chars("/go/bin/tool: go1.22")
GoPathLines == {Chars("\tpath\tex.com/tool"), Chars("\tpath\tex.com/cmd/xpath")}
GoModLines ==
    { Chars("\tmod\tex.com/tool\tv1.2.3\th1:x"),
      Chars("\tmod\tex.com/tool\tv2.40.1-pre.0"),
      Chars("\tmod\tex.com/gomod\t(devel)\t"),
      Chars("\tmod\tex.com/tool\tv1.2") }
GoDepLines ==
    { Chars("\tdep\tex.com/x/mod\tv0.1.0\th1:y"),
      Chars("\tdep\tex.com/lib\tv3.0.0\th1:z"),
      Chars("\tbuild\t-trimpath=true") }
OptionalLine(S) == {<<>>} \cup {<<l>> : l \in S}
GoBuildInfoTexts ==
    {<<GoHeaderLine>>}
    \cup {<<GoHeaderLine>> \o p \o m \o rest :
             p \in {<<l>> : l \in GoPathLines}, m \in OptionalLine(GoModLines),
             rest \in SeqsUpTo(GoDepLines, MaxGoDeps)}
    \cup {<<Chars("some random text without module path")>>,
          <<Chars("some random text without version")>>}

GoInit ==
    /\ build_info \in GoBuildInfoTexts
    /\ extracted = None
    /\ CargoIdle /\ BackendIdle /\ BatchIdle /\ CountsIdle /\ UiIdle

ExtractBuildInfo ==
    /\ extracted = None
    /\ extracted' = Some([module_path |-> extract_module_path(TextOf(build_info)),
                          version |-> extract_version(TextOf(build_info))])
    /\ UNCHANGED <<build_info, notGo>>

SpecGo == GoInit /\ [][ExtractBuildInfo]_vars

(***************************************************************************)
(* PackageManagerType: the dispatcher  (src/core/src/lib.rs) and the       *)
(* defaults of the PackageManager trait.  env holds what the external      *)
(* tools and the file system answer during the call.                       *)
(***************************************************************************)
NotImplemented(method) ==
    [ret |-> Err("UnknownError", Chars(method) \o Chars(" not implemented")),
     procs |-> <<>>]

list_updates(pm, config, env) ==
    CASE pm = "Dnf"      -> DnfManager_list_updates(config, env)
      [] pm = "Flatpak"  -> FlatpakManager_list_updates(config, env)
      [] pm = "Homebrew" -> HomebrewManager_list_updates(config, env.out)
      [] pm = "Cargo"    -> CargoManager_list_updates(config, env)
      [] pm = "Go"       -> GoManager_list_updates(config, env)

list_installed(pm, config, env) ==
    CASE pm = "Dnf"      -> DnfManager_list_installed(env.rpmqa)
      [] pm = "Flatpak"  -> FlatpakManager_list_installed(config, env)
      [] pm = "Homebrew" -> HomebrewManager_list_installed(config, env)
      [] pm = "Cargo"    -> CargoManager_list_installed(config, env)
      [] pm = "Go"       -> GoManager_list_installed(config, env)

\* the trait's default count_installed: Ok(Self::list_installed(config).await?.len())
default_count_installed(listed) ==
    [ret |-> IF listed.ret.ok THEN Ok(Len(listed.ret.val)) ELSE listed.ret,
     procs |-> listed.procs]

\* Dnf and Homebrew override count_installed; the others inherit the default
count_installed(pm, config, env) ==
    CASE pm = "Dnf"      -> DnfManager_count_installed(env)
      [] pm = "Homebrew" -> HomebrewManager_count_installed(config, env.out)
      [] OTHER           -> default_count_installed(list_installed(pm, config, env))

\* no backend overrides uninstall_package: all five inherit the default
uninstall_package(pm, config, package_name) == NotImplemented("uninstall_package")

uninstall_packages(pm, config, package_names, env) ==
    CASE pm = "Dnf"      -> DnfManager_uninstall_packages(config, package_names, env.out)
      [] pm = "Flatpak"  -> FlatpakManager_uninstall_packages(config, package_names, env.out)
      [] pm = "Homebrew" -> HomebrewManager_uninstall_packages(config, package_names, env.outs)
      [] pm = "Cargo"    -> CargoManager_uninstall_packages(config, package_names, env.outs)
      [] pm = "Go"       -> [f \in {"ret", "procs"} |->
                               GoManager_uninstall_packages(config, package_names, env)[f]]

update_packages(pm, config, package_names, env) ==
    CASE pm = "Dnf"      -> DnfManager_update_packages(config, package_names, env.out)
      [] pm = "Flatpak"  -> FlatpakManager_update_packages(config, package_names, env.out)
      [] pm = "Homebrew" -> HomebrewManager_update_packages(config, package_names, env.outs)
      [] pm = "Cargo"    -> CargoManager_update_packages(config, package_names, env.outs)
      [] pm = "Go"       -> GoManager_update_packages(config, package_names, env.outs)

install_packages(pm, config, package_names, env) ==
    CASE pm = "Dnf"      -> DnfManager_install_packages(config, package_names, env.out)
      [] pm = "Flatpak"  -> FlatpakManager_install_packages(config, package_names, env.out)
      [] pm = "Homebrew" -> HomebrewManager_install_packages(config, package_names, env.outs)
      [] pm = "Cargo"    -> CargoManager_install_packages(config, package_names, env.outs)
      [] pm = "Go"       -> GoManager_install_packages(config, package_names, env.outs)

(***************************************************************************)
(* What the external tools answer: the inputs of the backend calls.        *)
(***************************************************************************)
Success == Exit(0, <<>>, <<>>)

\* the successful runs that print up to n of the lines S
Listing(S, n) == {Exit(0, l, <<>>) : l \in SeqsUpTo(S, n)}
\* the same below a heading line
ListingUnder(heading, S, n) == {Exit(0, <<heading>> \o l, <<>>) : l \in SeqsUpTo(S, n)}

\* lines of `dnf check-upgrade`
DnfReportLines ==
    { Chars("bash.x86_64  5.2-1  updates"),
      Chars("bash.i686  5.3-1  updates"),
      Chars("vim  9.1  updates"),
      Chars("Repositories loaded."),
      Chars("junk"),
      Chars("") }
\* dnf check-upgrade exits with 100 when there are updates, 0 when none
DnfChecks ==
    Fails \cup {Exit(c, l, <<>>) : c \in {0, 100}, l \in SeqsUpTo(DnfReportLines, MaxReportLines)}
\* rpm databases: what `rpm -q` answers per package name
DnfDatabases ==
    { (Chars("bash") :> Exit(0, <<Chars("5.1-1")>>, <<>>))
        @@ (Chars("vim") :> Exit(0, <<Chars("9.0")>>, <<>>)),
      (Chars("bash") :> Exit(0, <<Chars("5.2-1")>>, <<>>)),
      (Chars("bash") :> SpawnFail)
        @@ (Chars("vim") :> Exit(0, <<Chars("9.1")>>, <<>>)) }
\* lines of `rpm -qa --queryformat ...`
DnfInstalledLines ==
    { Chars("bash\t5.2-1\tshell\t100\t1700000000\thttp://b"),
      Chars("vim\t9.1\t(none)\t(none)\t(none)\t(none)"),
      Chars("junk") }
DnfInstalledRuns == Fails \cup Listing(DnfInstalledLines, MaxInstalled)
\* runs of `sh -c "rpm -qa | wc -l"`
DnfCountRuns ==
    Fails \cup {Success, Exit(0, <<Chars("2")>>, <<>>), Exit(0, <<Chars("x")>>, <<>>)}

\* lines of `flatpak list --updates --app --columns=application,version,branch`
FlatpakUpdateLines ==
    { Chars("org.app\t1.0\tstable"), Chars("org.app\t1.1\tstable"),
      Chars("org.vlc\t\tbeta"), Chars("") }
\* lines of `flatpak list --columns=application,version,branch`
FlatpakInfoLines == { Chars("org.app\t1.0\tstable"), Chars("org.vlc\tbeta") }
FlatpakInfoRuns ==
    Fails \cup ListingUnder(Chars("Application ID\tVersion\tBranch"), FlatpakInfoLines, 2)
\* lines of `flatpak list --app --columns=application,name,version,branch,size,origin`
FlatpakListLines ==
    { Chars("org.app\tApp\t1.0\tstable\t1.5 MB\tflathub"), Chars("org.vlc\t\t\tbeta") }
FlatpakListRuns ==
    Fails \cup {Success}
      \cup ListingUnder(Chars("Application ID\tName\tVersion\tBranch\tSize\tOrigin"),
                        FlatpakListLines, MaxInstalled)
FlatpakOrders ==
    { <<Chars("org.app"), Chars("org.vlc")>>, <<Chars("org.vlc"), Chars("org.app")>> }

\* lines of `brew outdated --verbose`
BrewOutdatedLines ==
    { Chars("git (2.43) < 2.44"), Chars("jq (1.7) < 1.7"),
      Chars("vlc (3.0) != 3.1"), Chars(""),
      Chars("git 2.43 < 2.44"),            \* no parenthesized version
      Chars(" a (x) (1.0)  <  2 <3 "),     \* two pairs, two '<'
      Chars(") ( < 1") }
\* lines of `brew list --versions` and of `brew list`
BrewVersionLines == { Chars("git 2.43 2.44"), Chars("jq 1.7"), Chars("vlc") }
BrewOrders == { <<Chars("git"), Chars("jq")>>, <<Chars("jq"), Chars("git")>> }
\* runs of `brew info --json=v2 --installed`
BrewInfoRuns ==
    Fails \cup {Success, Exit(0, <<Chars("Error: no formulae")>>, <<>>)}
      \cup {Exit(0, <<JsonTexts[i][1]>>, <<>>) : i \in 1..Len(JsonTexts)}

\* crates.io: the max_version get_latest_version reads per crate
CargoLatest ==
    { (Chars("a") :> Ok(Chars("1.0"))) @@ (Chars("b") :> Ok(Chars("3"))),
      (Chars("a") :> Ok(Chars("1.1")))
        @@ (Chars("b") :> Err("UnknownError", Chars("No version found for b"))),
      EmptyMap }
\* crates.io: the description and the homepage get_crate_info reads
CargoInfo ==
    { (Chars("a") :> Ok(<<Some(Chars("A crate")), None>>)), EmptyMap }
CargoListRuns == Fails \cup Listing(CargoLines, MaxInstalled)

\* the environment variables GOBIN and GOPATH, and the home directory
GoOsEnvs ==
    { [GOBIN |-> None, GOPATH |-> None, HOME |-> Some(Chars("/h"))],
      [GOBIN |-> Some(Chars("/gb")), GOPATH |-> Some(Chars("/gp")),
       HOME |-> Some(Chars("/h"))],
      [GOBIN |-> None, GOPATH |-> Some(Chars("/gp")), HOME |-> None] }
GoDirs ==
    { Chars("/opt/gobin"), Chars("/gb"), Chars("/gp/bin"), Chars("/h/go/bin"),
      Chars("go/bin"), Chars("/go/bin") }
GoFile(name) == [name |-> Chars(name), is_file |-> TRUE]
GoSubdir(name) == [name |-> Chars(name), is_file |-> FALSE]
GoFileSystems ==
    { EmptyMap,
      [d \in GoDirs |-> <<GoFile("tool"), GoSubdir("pkg")>>],
      [d \in GoDirs \ {Chars("/opt/gobin")} |-> <<GoFile("tool"), GoFile("old")>>] }
GoBinaryPaths == {d \o Chars("/") \o n : d \in GoDirs, n \in {Chars("tool"), Chars("old")}}
\* what `go version -m <path>` prints for a binary built from a module
GoBuildInfo(lines) == Exit(0, <<Chars("tool: go1.22")>> \o lines, <<>>)
GoVersionAnswers ==
    { [p \in GoBinaryPaths |->
          GoBuildInfo(<<Chars("\tpath\tex.com/tool"),
                        Chars("\tmod\tex.com/tool\tv1.2.3\th1:x")>>)],
      [p \in GoBinaryPaths |->
          IF p[Len(p)] = "l" THEN GoBuildInfo(<<Chars("\tpath\tex.com/tool")>>)
          ELSE Exit(1, <<>>, Stderr)],
      [p \in GoBinaryPaths |-> IF p[Len(p)] = "l" THEN SpawnFail ELSE GoBuildInfo(<<>>)],
      [p \in GoBinaryPaths |-> Success] }
\* what `go list -m -versions <module>` prints
GoListAnswers ==
    { (Chars("ex.com/tool") :> Exit(0, <<Chars("ex.com/tool v1.2.0 v1.2.3")>>, <<>>)),
      (Chars("ex.com/tool") :> Exit(0, <<Chars("ex.com/tool v1.2.3 v1.3.0")>>, <<>>)),
      (Chars("ex.com/tool") :> Exit(0, <<Chars("ex.com/tool")>>, <<>>)),
      EmptyMap }
GoEnvs ==
    [osenv : GoOsEnvs, fs : GoFileSystems, version : GoVersionAnswers,
     versions : GoListAnswers]

ListUpdatesEnv(pm) ==
    CASE pm = "Dnf"      -> [check : DnfChecks, rpmq : DnfDatabases]
      [] pm = "Flatpak"  -> [updates : Fails \cup Listing(FlatpakUpdateLines, MaxInstalled),
                             installed : FlatpakInfoRuns]
      [] pm = "Homebrew" -> [out : Fails \cup Listing(BrewOutdatedLines, MaxInstalled)]
      [] pm = "Cargo"    -> [list : CargoListRuns, latest : CargoLatest]
      [] pm = "Go"       -> GoEnvs

ListInstalledEnv(pm) ==
    CASE pm = "Dnf"      -> [rpmqa : DnfInstalledRuns]
      [] pm = "Flatpak"  -> [list : FlatpakListRuns, installed : FlatpakInfoRuns,
                             order : FlatpakOrders]
      [] pm = "Homebrew" -> [info : BrewInfoRuns,
                             versions : Fails \cup Listing(BrewVersionLines, MaxInstalled),
                             order : BrewOrders]
      [] pm = "Cargo"    -> [list : CargoListRuns, info : CargoInfo]
      [] pm = "Go"       -> GoEnvs

CountInstalledEnv(pm) ==
    CASE pm = "Dnf"      -> [sh : DnfCountRuns, rpmqa : DnfInstalledRuns]
      [] pm = "Homebrew" -> [out : Fails \cup Listing(BrewVersionLines, MaxInstalled)]
      [] OTHER           -> ListInstalledEnv(pm)

\* the names of a batch
PackageNames == { Chars("tool"), Chars("ex.com/old") }
BatchNames == SeqsUpTo(PackageNames, MaxBatch)

\* Dnf and Flatpak run one process for the batch, the others one per name
ProcessEnv(pm, package_names) ==
    IF pm \in {"Dnf", "Flatpak"} THEN [out : Fails \cup {Success}]
    ELSE [outs : [1..Len(package_names) -> Fails \cup {Success}]]
\* GoManager::uninstall_packages spawns nothing: it removes files
UninstallEnv(pm, package_names) ==
    IF pm = "Go" THEN [osenv : GoOsEnvs, fs : GoFileSystems]
    ELSE ProcessEnv(pm, package_names)

(***************************************************************************)
(* The backend calls: one action per method of PackageManagerType.  A      *)
(* behaviour makes one call; op records it with its inputs.                *)
(***************************************************************************)
Call(method, pm, config, package_names, env, result) ==
    /\ op.name = "none"
    /\ op' = [pm |-> pm, name |-> method, config |-> config,
              names |-> package_names, env |-> env]
    /\ procs' = result.procs
    /\ ret' = result.ret
    /\ again' = None
    /\ UNCHANGED notBackend

ListUpdates ==
    \E pm \in PackageManagerType, config \in Configs :
        \E env \in ListUpdatesEnv(pm) :
            Call("list_updates", pm, config, <<>>, env, list_updates(pm, config, env))

ListInstalled ==
    \E pm \in PackageManagerType, config \in Configs :
        \E env \in ListInstalledEnv(pm) :
            Call("list_installed", pm, config, <<>>, env, list_installed(pm, config, env))

CountInstalled ==
    \E pm \in PackageManagerType, config \in Configs :
        \E env \in CountInstalledEnv(pm) :
            Call("count_installed", pm, config, <<>>, env, count_installed(pm, config, env))

UninstallPackage ==
    \E pm \in PackageManagerType, config \in Configs, package_name \in PackageNames :
        Call("uninstall_package", pm, config, <<package_name>>, <<>>,
             uninstall_package(pm, config, package_name))

UninstallPackages ==
    \E pm \in PackageManagerType, config \in Configs, package_names \in BatchNames :
        \E env \in UninstallEnv(pm, package_names) :
            Call("uninstall_packages", pm, config, package_names, env,
                 uninstall_packages(pm, config, package_names, env))

UpdatePackages ==
    \E pm \in PackageManagerType, config \in Configs, package_names \in BatchNames :
        \E env \in ProcessEnv(pm, package_names) :
            Call("update_packages", pm, config, package_names, env,
                 update_packages(pm, config, package_names, env))

InstallPackages ==
    \E pm \in PackageManagerType, config \in Configs, package_names \in BatchNames :
        \E env \in ProcessEnv(pm, package_names) :
            Call("install_packages", pm, config, package_names, env,
                 install_packages(pm, config, package_names, env))

\* the tools and the file system answer a repeated call as they answered
\* the first; a HashMap built anew iterates in an order of its own
SameAnswers(pm, env) ==
    IF pm \in {"Flatpak", "Homebrew"}
    THEN {e \in ListInstalledEnv(pm) : \E o \in {e.order} : e = [env EXCEPT !.order = o]}
    ELSE {env}

\* list_installed called a second time, nothing having changed in between
ListInstalledAgain ==
    /\ op.name = "list_installed"
    /\ again = None
    /\ \E env \in SameAnswers(op.pm, op.env) :
           again' = Some(list_installed(op.pm, op.config, env).ret)
    /\ UNCHANGED <<op, procs, ret, notBackend>>

Init == CargoIdle /\ BackendIdle /\ BatchIdle /\ CountsIdle /\ GoIdle /\ UiIdle

Next ==
    \/ ListUpdates
    \/ ListInstalled
    \/ ListInstalledAgain
    \/ CountInstalled
    \/ UninstallPackage
    \/ UninstallPackages
    \/ UpdatePackages
    \/ InstallPackages

Spec == Init /\ [][Next]_vars

(***************************************************************************)
(* The batch mutations of the pages  (src/ui/src/content/updates.rs,       *)
(* installed.rs, finding.rs).  Each action groups the selected packages    *)
(* by manager and starts a task that calls the managers one after the      *)
(* other.  listing maps a manager to the names the page lists for it       *)
(* (updates_by_manager, installed_packages, search_results).               *)
(***************************************************************************)

\* a grouping that makes an entry for every manager it visits, whether a
\* name of it is selected or not
packages_by_manager_visited(managers, listing, selected_packages) ==
    [pm \in managers \cap DOMAIN listing |->
        SelectSeq(listing[pm], LAMBDA n : n \in selected_packages)]

\* the HashMap the three actions build: per manager, the listed names that
\* are selected; `entry(pm)` is only reached for a selected name
packages_by_manager(managers, listing, selected_packages) ==
    LET picked(pm) == SelectSeq(listing[pm], LAMBDA n : n \in selected_packages)
    IN [pm \in {m \in managers \cap DOMAIN listing : picked(m) # <<>>} |-> picked(pm)]

\* the Display of a CoreError
ErrorText(e) ==
    CASE e.kind = "CommandError"       -> Chars("Failed to execute command: ") \o e.msg
      [] e.kind = "Utf8Error"          -> Chars("Invalid UTF-8 output: ") \o e.msg
      [] e.kind = "ParseError"         -> Chars("Parse error: ") \o e.msg
      [] e.kind = "UnknownError"       -> Chars("Unknown error: ") \o e.msg
      [] e.kind = "SerializationError" -> Chars("Serialization error: ") \o e.msg
      [] e.kind = "RequestError"       -> Chars("request error: ") \o e.msg

\* the managers and the names of the pages
BatchManagers == {"Dnf", "Flatpak", "Cargo"}
BatchListings ==
    { ("Dnf" :> <<Chars("tool"), Chars("vim")>>) @@ ("Flatpak" :> <<Chars("tool")>>)
        @@ ("Cargo" :> <<Chars("vim")>>),
      ("Dnf" :> <<Chars("vim")>>) @@ ("Cargo" :> <<Chars("tool")>>) }
BatchSelections == SUBSET {Chars("tool"), Chars("vim")}
\* the check boxes of the package rows: one per manager section and listed
\* name; clicks are the boxes the user ticked
BatchClicks(listing) ==
    SUBSET {c \in (DOMAIN listing) \X (UNION BatchSelections) :
               \E i \in 1..Len(listing[c[1]]) : listing[c[1]][i] = c[2]}
\* Message::TogglePackageSelection(package_name, true) of every ticked box:
\* selected_packages holds the names
TogglePackageSelection(clicks) == {c[2] : c \in clicks}

\* what a manager's call returns during the task: an error for the
\* managers of fails
BatchAnswer(fails, pm) ==
    IF pm \in fails THEN Err("UnknownError", Chars("failed: ") \o Stderr) ELSE Ok(Unit)

StartBatch(page, method, managers, listing, clicks, fails) ==
    /\ batch.page = "none"
    /\ batch' = [page |-> page, method |-> method, managers |-> managers,
                 listing |-> listing, selected |-> TogglePackageSelection(clicks),
                 clicks |-> clicks,
                 groups |-> packages_by_manager(managers, listing,
                                                TogglePackageSelection(clicks)),
                 fails |-> fails]
    /\ called' = <<>>
    /\ outcome' = None
    /\ UNCHANGED notBatch

\* Updates::update_packages_action
update_packages_action ==
    \E selected_managers \in SUBSET BatchManagers, updates_by_manager \in BatchListings,
       fails \in SUBSET BatchManagers :
        \E clicks \in BatchClicks(updates_by_manager) :
            StartBatch("Updates", "update_packages", selected_managers, updates_by_manager,
                       clicks, fails)

\* Installed::remove_packages_action
remove_packages_action ==
    \E selected_managers \in SUBSET BatchManagers, installed_packages \in BatchListings,
       fails \in SUBSET BatchManagers :
        \E clicks \in BatchClicks(installed_packages) :
            StartBatch("Installed", "uninstall_packages", selected_managers,
                       installed_packages, clicks, fails)

\* Finding::install_packages_action: every manager of search_results
install_packages_action ==
    \E search_results \in BatchListings, fails \in SUBSET BatchManagers :
        \E clicks \in BatchClicks(search_results) :
            StartBatch("Finding", "install_packages", DOMAIN search_results, search_results,
                       clicks, fails)

BatchVerb(method) ==
    CASE method = "update_packages"    -> "update"
      [] method = "uninstall_packages" -> "remove"
      [] method = "install_packages"   -> "install"

CalledManagers == {called[i][1] : i \in 1..Len(called)}

\* one iteration of `for (pm_type, package_names) in packages_by_manager`:
\* the HashMap yields its entries in any order; an error ends the task
BatchCall ==
    /\ batch.page # "none"
    /\ outcome = None
    /\ \E pm_type \in DOMAIN batch.groups \ CalledManagers :
        /\ called' = Append(called, <<pm_type, batch.groups[pm_type]>>)
        /\ outcome' = IF BatchAnswer(batch.fails, pm_type).ok THEN None
                      ELSE Some(Err("String",
                                    Chars("Failed to ") \o Chars(BatchVerb(batch.method))
                                      \o Chars(" packages from ") \o Chars(pm_type)
                                      \o Chars(": ")
                                      \o ErrorText(BatchAnswer(batch.fails, pm_type))))
    /\ UNCHANGED <<batch, notBatch>>

\* the loop is exhausted: Ok(())
BatchReturn ==
    /\ batch.page # "none"
    /\ outcome = None
    /\ DOMAIN batch.groups \subseteq CalledManagers
    /\ outcome' = Some(Ok(Unit))
    /\ UNCHANGED <<batch, called, notBatch>>

NextBatch ==
    \/ update_packages_action
    \/ remove_packages_action
    \/ install_packages_action
    \/ BatchCall
    \/ BatchReturn

SpecBatch == Init /\ [][NextBatch]_vars

(***************************************************************************)
(* The start-up counts  (src/ui/src/app.rs): init_installed_counts and     *)
(* init_updates_counts ask every configured manager concurrently and join  *)
(* the answers.                                                            *)
(***************************************************************************)

\* system_manager.iter().map(..).chain(app_managers.iter().map(..)).collect()
configured_pms(config) ==
    [i \in 1..Len(config.system_manager) |-> config.system_manager[i].manager_type]
    \o [i \in 1..Len(config.app_managers) |-> config.app_managers[i].manager_type]

\* pm.count_installed(&config).await.unwrap_or(0)
count_or_zero(res) == IF res.ok THEN res.val ELSE 0
\* pm.list_updates(&config).await.unwrap_or_default()
updates_or_default(res) == IF res.ok THEN res.val ELSE <<>>

\* the output of the future of the i-th manager
future_output(j, i) ==
    <<j.pms[i], IF j.task = "init_installed_counts" THEN count_or_zero(j.results[i])
                ELSE updates_or_default(j.results[i])>>

\* join_all: the outputs in the order of the futures, whatever the order
\* they completed in
join_all_as_completed(outputs, n) == [i \in 1..n |-> outputs[i].output]
join_all(outputs, n) ==
    [i \in 1..n |-> outputs[CHOOSE k \in 1..Len(outputs) : outputs[k].index = i].output]

\* the configs of the count tasks: with or without the system manager,
\* and any list of distinct application managers
InjectiveSeqs(S, n) ==
    {q \in SeqsUpTo(S, n) : \A i, k \in 1..Len(q) : i # k => q[i] # q[k]}
CountConfigs ==
    { [system_manager |-> sys,
       app_managers |-> [i \in 1..Len(apps) |-> PackageManagerConfig(apps[i], None)],
       go_bin_dir |-> None] :
      sys \in {None, Some(PackageManagerConfig("Dnf", None))},
      apps \in InjectiveSeqs({"Flatpak", "Homebrew", "Cargo", "Go"}, MaxApps) }

\* what a manager's count_installed / list_updates returns to the task
CountAnswers == { Ok(3), Err("CommandError", IoError) }
UpdatesAnswers ==
    { Ok(<<PackageUpdate(Chars("tool"), Chars("1.0"), Chars("1.1"))>>),
      Err("UnknownError", Chars("cargo install --list failed")) }

StartJoin(task, config, results) ==
    /\ join.task = "none"
    /\ join' = [task |-> task, config |-> config, pms |-> configured_pms(config),
                results |-> results]
    /\ done' = <<>>
    /\ counts' = None
    /\ UNCHANGED notCounts

\* App::init_installed_counts: the futures are created
init_installed_counts ==
    \E config \in CountConfigs :
        \E results \in [1..Len(configured_pms(config)) -> CountAnswers] :
            StartJoin("init_installed_counts", config, results)

\* App::init_updates_counts: the futures are created
init_updates_counts ==
    \E config \in CountConfigs :
        \E results \in [1..Len(configured_pms(config)) -> UpdatesAnswers] :
            StartJoin("init_updates_counts", config, results)

\* one of the joined futures completes; they complete in any order
FutureCompletes ==
    /\ join.task # "none"
    /\ counts = None
    /\ \E i \in 1..Len(join.pms) :
        /\ \A k \in 1..Len(done) : done[k].index # i
        /\ done' = Append(done, [index |-> i, output |-> future_output(join, i)])
    /\ UNCHANGED <<join, counts, notCounts>>

\* every future has completed: join_all yields the Vec the task returns
JoinAllReturns ==
    /\ join.task # "none"
    /\ counts = None
    /\ Len(done) = Len(join.pms)
    /\ counts' = Some(join_all(done, Len(join.pms)))
    /\ UNCHANGED <<join, done, notCounts>>

NextCounts ==
    \/ init_installed_counts
    \/ init_updates_counts
    \/ FutureCompletes
    \/ JoinAllReturns

SpecCounts == Init /\ [][NextCounts]_vars

(***************************************************************************)
(* The window (src/ui): App::update hands every message to its handler.    *)
(* A task the runtime runs is kept with what it was started for; when it   *)
(* completes its message goes through App::update like any other.          *)
(***************************************************************************)
\* the tasks in flight at one time
MaxTasks == 2
\* the entries app_managers may grow to
MaxManagers == 2

ActiveContentPage == {"Finding", "Updates", "Installed", "Settings"}
\* a task the runtime runs: what it does, the manager and the argument it
\* was started for, and the Config handed to the backend (None: it calls
\* no backend)
Task(kind, pm, arg, config) == [kind |-> kind, pm |-> pm, arg |-> arg, config |-> config]
Running(kind) == {i \in 1..Len(tasks) : tasks[i].kind = kind}
Remove(seq, i) == SubSeq(seq, 1, i - 1) \o SubSeq(seq, i + 1, Len(seq))
CanSpawn(n) == Len(tasks) + n <= MaxTasks
Range(seq) == {seq[i] : i \in 1..Len(seq)}

\* what Config::load and Config::detect_package_managers can produce: the
\* first available system manager, the available application managers in
\* the order of ALL_APP_PACKAGE_MANAGERS, no custom path
AvailableSets == { {}, {"Dnf", "Cargo"} }
detect_package_managers(available) ==
    LET apps == SelectSeq(ALL_APP_PACKAGE_MANAGERS, LAMBDA t : t \in available)
    IN [system_manager |-> IF "Dnf" \in available
                           THEN Some(PackageManagerConfig("Dnf", None)) ELSE None,
        app_managers |-> [i \in 1..Len(apps) |-> PackageManagerConfig(apps[i], None)],
        go_bin_dir |-> None]

\* App::new: the default window and the task that loads the config
UiInit ==
    /\ active = "Finding"
    /\ pm_config = DefaultConfig
    /\ tasks = <<Task("load", "none", None, None)>>
    /\ PagesDefault
    /\ CargoIdle /\ BackendIdle /\ BatchIdle /\ CountsIdle /\ GoIdle

\* what Config::load reads from a config.json the Settings page saved: custom
\* paths and the override of the Go binary directory
SavedConfig ==
    [system_manager |-> Some(PackageManagerConfig("Dnf", Some(Chars("/opt/dnf")))),
     app_managers |-> <<PackageManagerConfig("Go", Some(Chars("/opt/go")))>>,
     go_bin_dir |-> Some(Chars("/opt/gobin"))]

\* Message::ConfigLoaded: the loaded config (the saved one, or the detected
\* one when no file exists) replaces the default one; a failed load is logged
ConfigLoaded ==
    \E i \in Running("load") :
        /\ tasks' = Remove(tasks, i)
        /\ \/ \E available \in AvailableSets :
                pm_config' = detect_package_managers(available)
           \/ pm_config' = SavedConfig
           \/ UNCHANGED pm_config
        /\ UNCHANGED <<active, pageVars, notUi>>

\* Message::SideBar(Select(tab)): SideBar::update and the ChangeContent arm
\* of App::update; the first visit of Installed or Updates, and every visit
\* before the counts arrived, starts the count task, which asks the
\* managers of the config it was given.  tabs: the tabs the user visits
Select(tabs) ==
    \E tab \in (ActiveContentPage \cap tabs) \ {active} :
        /\ active' = tab
        /\ IF tab = "Installed" /\ ~insatlled_info.has_loading_count
           THEN /\ CanSpawn(1)
                /\ insatlled_info' = [insatlled_info EXCEPT !.is_loading_count = TRUE]
                /\ tasks' = Append(tasks, Task("init_installed_counts", "none", configured_pms(pm_config),
                                                  Some(pm_config)))
                /\ UNCHANGED updates_info
           ELSE IF tab = "Updates" /\ ~updates_info.has_loading_count
           THEN /\ CanSpawn(1)
                /\ updates_info' = [updates_info EXCEPT !.is_loading_count = TRUE]
                /\ tasks' = Append(tasks, Task("init_updates_counts", "none", configured_pms(pm_config),
                                                  Some(pm_config)))
                /\ UNCHANGED insatlled_info
           ELSE UNCHANGED <<tasks, insatlled_info, updates_info>>
        /\ UNCHANGED <<pm_config, settings, finding, finding_info, panicked, notUi>>

\* what the count task found for each manager
UiCounts == {0, 2}
UiUpdates == { <<>>, <<PackageUpdate(Chars("tool"), Chars("1.0"), Chars("1.1"))>> }
UiInstalled == { <<>>, <<PackageInfo(Chars("tool"), Chars("1.0"), "Cargo", None, None, None, None),
                        PackageInfo(Chars("old"), Chars("0.1"), "Cargo", None, None, None, None)>> }

\* Message::InitInstalledCounts: the counts replace installed_packages,
\* no package list loaded yet
InitInstalledCounts ==
    \E i \in Running("init_installed_counts") :
        LET pms == Range(tasks[i].arg)
        IN \E count \in [pms -> UiCounts] :
            /\ tasks' = Remove(tasks, i)
            /\ insatlled_info' =
                  [insatlled_info EXCEPT !.is_loading_count = FALSE,
                                         !.has_loading_count = TRUE,
                                         !.installed_packages =
                                             [pm \in pms |-> <<count[pm], <<>>>>]]
            /\ UNCHANGED <<active, pm_config, settings, updates_info, finding,
                           finding_info, panicked, notUi>>

\* Message::InitUpdatesCounts: the lists replace updates_by_manager
InitUpdatesCounts ==
    \E i \in Running("init_updates_counts") :
        LET pms == Range(tasks[i].arg)
        IN \E updates \in [pms -> UiUpdates] :
            /\ tasks' = Remove(tasks, i)
            /\ updates_info' =
                  [updates_info EXCEPT !.is_loading_count = FALSE,
                                       !.has_loading_count = TRUE,
                                       !.updates_by_manager =
                                           [pm \in pms |-> <<Len(updates[pm]), updates[pm]>>]]
            /\ UNCHANGED <<active, pm_config, settings, insatlled_info, finding,
                           finding_info, panicked, notUi>>

\* Content::update with a message of a page that is not the active one:
\* the message is dropped, nothing changes
Dropped(i) ==
    /\ tasks' = Remove(tasks, i)
    /\ UNCHANGED <<active, pm_config, pageVars, notUi>>

(***************************************************************************)
(* The Settings page (content/setting.rs).  Its buttons exist while the    *)
(* page is shown; the results of its tasks arrive whenever they are ready. *)
(***************************************************************************)
FileHandles == {Chars("/opt/bin/tool")}
\* the add buttons the user presses
AddedManagers == {"Cargo", "Go"}
SettingsOnly == <<insatlled_info, updates_info, finding, finding_info, panicked, notUi>>

\* Message::DetectPackageManagers, from the button that is_detecting disables
DetectPackageManagers ==
    /\ active = "Settings"
    /\ ~settings.is_detecting
    /\ CanSpawn(1)
    /\ settings' = [settings EXCEPT !.is_detecting = TRUE]
    /\ tasks' = Append(tasks, Task("detect", "none", None, None))
    /\ UNCHANGED <<active, pm_config, SettingsOnly>>

\* Message::FinishDetect(config)
FinishDetect ==
    \E i \in Running("detect") :
        IF active # "Settings" THEN Dropped(i)
        ELSE \E available \in AvailableSets :
            /\ tasks' = Remove(tasks, i)
            /\ settings' = [settings EXCEPT !.is_detecting = FALSE]
            /\ pm_config' = detect_package_managers(available)
            /\ UNCHANGED <<active, SettingsOnly>>

\* Message::OpenDialog(manager_type), from the add button the selection
\* list shows for the application managers not in app_managers
OpenDialog ==
    /\ active = "Settings"
    /\ CanSpawn(1)
    /\ \E manager_type \in Range(ALL_APP_PACKAGE_MANAGERS) \cap AddedManagers :
        /\ \A i \in 1..Len(pm_config.app_managers) :
              pm_config.app_managers[i].manager_type # manager_type
        /\ settings' = [settings EXCEPT !.selecting_manager = Some(manager_type)]
        /\ tasks' = Append(tasks, Task("pick_file", "none", None, None))
    /\ UNCHANGED <<active, pm_config, SettingsOnly>>

\* Message::SelectedPath(file_handle): the file dialog returned a file
SelectedPath ==
    \E i \in Running("pick_file") :
        IF active # "Settings" THEN Dropped(i)
        ELSE \E file_handle \in FileHandles :
            /\ Len(pm_config.app_managers) < MaxManagers
            /\ tasks' = Remove(tasks, i)
            /\ pm_config' =
                  IF settings.selecting_manager # None
                  THEN [pm_config EXCEPT !.app_managers =
                           Append(@, PackageManagerConfig(settings.selecting_manager[1],
                                                          Some(file_handle)))]
                  ELSE pm_config
            /\ UNCHANGED <<active, settings, SettingsOnly>>

\* Message::CancelSelection: either dialog was closed without a choice
CancelSelection ==
    \E i \in Running("pick_file") \cup Running("pick_folder") :
        IF active # "Settings" THEN Dropped(i)
        ELSE /\ tasks' = Remove(tasks, i)
             /\ settings' = [settings EXCEPT !.selecting_manager = None]
             /\ UNCHANGED <<active, pm_config, SettingsOnly>>

\* Message::OpenGoBinDirDialog
OpenGoBinDirDialog ==
    /\ active = "Settings"
    /\ CanSpawn(1)
    /\ tasks' = Append(tasks, Task("pick_folder", "none", None, None))
    /\ UNCHANGED <<active, pm_config, settings, SettingsOnly>>

\* Message::SelectedGoBinDir(file_handle)
SelectedGoBinDir ==
    \E i \in Running("pick_folder") :
        IF active # "Settings" THEN Dropped(i)
        ELSE \E file_handle \in FileHandles :
            /\ tasks' = Remove(tasks, i)
            /\ pm_config' = [pm_config EXCEPT !.go_bin_dir = Some(file_handle)]
            /\ UNCHANGED <<active, settings, SettingsOnly>>

\* Message::ClearGoBinDir, from the button shown while go_bin_dir is set
ClearGoBinDir ==
    /\ active = "Settings"
    /\ pm_config.go_bin_dir # None
    /\ pm_config' = [pm_config EXCEPT !.go_bin_dir = None]
    /\ UNCHANGED <<active, tasks, settings, SettingsOnly>>

\* the window once the config is loaded: each manager type at most once
SettingsInit ==
    /\ active = "Finding"
    /\ \E available \in AvailableSets : pm_config = detect_package_managers(available)
    /\ tasks = <<>>
    /\ PagesDefault
    /\ CargoIdle /\ BackendIdle /\ BatchIdle /\ CountsIdle /\ GoIdle

NextSettings ==
    \/ Select({"Finding", "Settings"})
    \/ DetectPackageManagers
    \/ FinishDetect
    \/ OpenDialog
    \/ SelectedPath
    \/ CancelSelection
    \/ OpenGoBinDirDialog
    \/ SelectedGoBinDir
    \/ ClearGoBinDir

SpecSettings == SettingsInit /\ [][NextSettings]_vars

(***************************************************************************)
(* The Updates page (content/updates.rs)                                   *)
(***************************************************************************)
\* the Config the pages hand to every backend call they start:
\* &updater_core::Config::default()
PageConfig == DefaultConfig
UpdatesOnly == <<pm_config, settings, insatlled_info, finding, finding_info, panicked, notUi>>
\* one task per manager of a set; the tasks run side by side
LoadTasks(kind, pms, arg) ==
    LET order == SelectSeq(<<"Dnf", "Flatpak", "Homebrew", "Cargo", "Go">>,
                           LAMBDA t : t \in pms)
    IN [i \in 1..Len(order) |-> Task(kind, order[i], arg, Some(PageConfig))]
\* the filter's check boxes exist once the counts are there
UpdatesFilterShown ==
    /\ active = "Updates"
    /\ ~updates_info.is_loading_count /\ updates_info.has_loading_count
\* what a load or a batch task hands back
LoadUpdatesAnswers == {Ok(u) : u \in UiUpdates} \cup {Err("String", Chars("Failed to load"))}
BatchAnswers == {Ok(Unit), Err("String", Chars("Failed"))}

\* Message::SelectPackageManager(pm_type, selected), from a check box of a
\* manager that is not loading
Updates_SelectPackageManager ==
    /\ UpdatesFilterShown
    /\ \E pm_type \in DOMAIN updates_info.updates_by_manager \ updates_info.loading_updates,
          selected \in BOOLEAN :
        IF ~selected
        THEN /\ updates_info' = [updates_info EXCEPT !.selected_managers = @ \ {pm_type}]
             /\ UNCHANGED tasks
        ELSE IF updates_info.updates_by_manager[pm_type][1]
                   = Len(updates_info.updates_by_manager[pm_type][2])
        THEN /\ updates_info' = [updates_info EXCEPT !.selected_managers = @ \cup {pm_type}]
             /\ UNCHANGED tasks
        ELSE /\ CanSpawn(1)
             /\ updates_info' = [updates_info EXCEPT
                                    !.selected_managers = @ \cup {pm_type},
                                    !.loading_updates = @ \cup {pm_type}]
             /\ tasks' = Append(tasks, Task("load_updates", pm_type, None, Some(PageConfig)))
    /\ UNCHANGED <<active, UpdatesOnly>>

\* Message::LoadUpdatesResult(pm_type, result)
LoadUpdatesResult ==
    \E i \in Running("load_updates") :
        IF active # "Updates" THEN Dropped(i)
        ELSE \E result \in LoadUpdatesAnswers :
            LET packages == IF result.ok THEN result.val ELSE <<>>
            IN /\ tasks' = Remove(tasks, i)
               /\ updates_info' =
                     [updates_info EXCEPT
                         !.loading_updates = @ \ {tasks[i].pm},
                         !.updates_by_manager =
                             MapInsert(@, tasks[i].pm, <<Len(packages), packages>>)]
               /\ UNCHANGED <<active, UpdatesOnly>>

\* the names of the packages the selected managers show
UpdatesVisible ==
    UNION { {p.name : p \in Range(updates_info.updates_by_manager[pm][2])} :
            pm \in updates_info.selected_managers \cap DOMAIN updates_info.updates_by_manager }

\* Message::ToggleSelectAll(select_all)
ToggleSelectAll ==
    /\ active = "Updates"
    /\ \E select_all \in BOOLEAN :
        updates_info' = [updates_info EXCEPT !.selected_packages =
                            IF select_all THEN @ \cup UpdatesVisible ELSE {}]
    /\ UNCHANGED <<active, tasks, UpdatesOnly>>

\* Message::UpdateSelectedPackages, from the button that is enabled while
\* packages are selected and no update runs
UpdateSelectedPackages ==
    /\ active = "Updates"
    /\ updates_info.selected_packages # {} /\ ~updates_info.is_updating
    /\ CanSpawn(1)
    /\ updates_info' = [updates_info EXCEPT !.is_updating = TRUE]
    /\ tasks' = Append(tasks, Task("update_packages", "none", None, Some(PageConfig)))
    /\ UNCHANGED <<active, UpdatesOnly>>

\* Message::UpdatePackagesResult(result): after a successful update the
\* selected managers are loaded again
UpdatePackagesResult ==
    \E i \in Running("update_packages") :
        IF active # "Updates" THEN Dropped(i)
        ELSE \E result \in BatchAnswers :
            LET pm_types == updates_info.selected_managers
            IN /\ IF result.ok
                  THEN /\ updates_info' =
                             [updates_info EXCEPT !.is_updating = FALSE,
                                                  !.selected_packages = {},
                                                  !.loading_updates = @ \cup pm_types]
                       /\ tasks' = Remove(tasks, i) \o LoadTasks("load_updates", pm_types, None)
                  ELSE /\ updates_info' = [updates_info EXCEPT !.is_updating = FALSE]
                       /\ tasks' = Remove(tasks, i)
               /\ UNCHANGED <<active, UpdatesOnly>>

\* Message::RefreshInfo: every manager of updates_by_manager is loaded again
Updates_RefreshInfo ==
    /\ active = "Updates"
    /\ LET pm_types == DOMAIN updates_info.updates_by_manager
       IN /\ CanSpawn(Cardinality(pm_types))
          /\ updates_info' = [updates_info EXCEPT !.loading_updates = @ \cup pm_types]
          /\ tasks' = tasks \o LoadTasks("load_updates", pm_types, None)
    /\ UNCHANGED <<active, UpdatesOnly>>

UpdatesTabs == {"Updates", "Settings"}
NextUpdates ==
    \/ ConfigLoaded
    \/ Select(UpdatesTabs)
    \/ InitUpdatesCounts
    \/ Updates_SelectPackageManager
    \/ LoadUpdatesResult
    \/ ToggleSelectAll
    \/ UpdateSelectedPackages
    \/ UpdatePackagesResult
    \/ Updates_RefreshInfo

\* every task that runs comes to its end and the runtime hands its message
\* to App::update: the task that has been running longest does not run
\* for ever
OldestTaskDone == tasks # <<>> /\ SubSeq(tasks', 1, Len(tasks) - 1) = Tail(tasks)
UpdatesTasksComplete ==
    WF_vars(/\ ConfigLoaded \/ InitUpdatesCounts \/ LoadUpdatesResult \/ UpdatePackagesResult
            /\ OldestTaskDone)

SpecUpdates == UiInit /\ [][NextUpdates]_vars /\ UpdatesTasksComplete

(***************************************************************************)
(* The Installed page (content/installed.rs)                               *)
(***************************************************************************)
InstalledOnly == <<pm_config, settings, updates_info, finding, finding_info, panicked, notUi>>
InstalledFilterShown ==
    /\ active = "Installed"
    /\ ~insatlled_info.is_loading_count /\ insatlled_info.has_loading_count
LoadInstalledAnswers ==
    {Ok(l) : l \in UiInstalled} \cup {Err("String", Chars("Failed to load"))}

\* Message::SelectPackageManager(pm_type, selected), from a check box of a
\* manager that is not loading
Installed_SelectPackageManager ==
    /\ InstalledFilterShown
    /\ \E pm_type \in DOMAIN insatlled_info.installed_packages
                        \ insatlled_info.loading_installed,
          selected \in BOOLEAN :
        IF ~selected
        THEN /\ insatlled_info' = [insatlled_info EXCEPT !.selected_managers = @ \ {pm_type}]
             /\ UNCHANGED tasks
        ELSE IF insatlled_info.installed_packages[pm_type][1]
                   = Len(insatlled_info.installed_packages[pm_type][2])
        THEN /\ insatlled_info' = [insatlled_info EXCEPT !.selected_managers = @ \cup {pm_type}]
             /\ UNCHANGED tasks
        ELSE /\ CanSpawn(1)
             /\ insatlled_info' = [insatlled_info EXCEPT
                                      !.selected_managers = @ \cup {pm_type},
                                      !.loading_installed = @ \cup {pm_type}]
             /\ tasks' = Append(tasks, Task("load_installed", pm_type, None, Some(PageConfig)))
    /\ UNCHANGED <<active, InstalledOnly>>

\* Message::LoadInstalledResult(pm_type, result)
LoadInstalledResult ==
    \E i \in Running("load_installed") :
        IF active # "Installed" THEN Dropped(i)
        ELSE \E result \in LoadInstalledAnswers :
            LET packages == IF result.ok THEN result.val ELSE <<>>
            IN /\ tasks' = Remove(tasks, i)
               /\ insatlled_info' =
                     [insatlled_info EXCEPT
                         !.loading_installed = @ \ {tasks[i].pm},
                         !.installed_packages =
                             MapInsert(@, tasks[i].pm, <<Len(packages), packages>>)]
               /\ UNCHANGED <<active, InstalledOnly>>

\* the ClearCacheAndReload arm of App::update on the Installed page: the
\* counts are asked for again
InstalledReload(info) ==
    /\ insatlled_info' = [info EXCEPT !.is_loading_count = TRUE]
    /\ tasks' = Append(tasks, Task("init_installed_counts", "none",
                                    configured_pms(pm_config), Some(pm_config)))

\* Message::RefreshInfo: every manager of installed_packages is marked as
\* loading, then ClearCacheAndReload
Installed_RefreshInfo ==
    /\ active = "Installed"
    /\ CanSpawn(1)
    /\ InstalledReload([insatlled_info EXCEPT
                          !.loading_installed = @ \cup DOMAIN insatlled_info.installed_packages])
    /\ UNCHANGED <<active, InstalledOnly>>

\* the names of the packages the list shows
InstalledVisible ==
    UNION { {p.name : p \in Range(insatlled_info.installed_packages[pm][2])} :
            pm \in insatlled_info.selected_managers
                      \cap DOMAIN insatlled_info.installed_packages }

\* Message::TogglePackageSelection(package_name, selected)
Installed_TogglePackageSelection ==
    /\ InstalledFilterShown
    /\ \E package_name \in InstalledVisible, selected \in BOOLEAN :
        insatlled_info' = [insatlled_info EXCEPT !.selected_packages =
                              IF selected THEN @ \cup {package_name}
                                          ELSE @ \ {package_name}]
    /\ UNCHANGED <<active, tasks, InstalledOnly>>

\* Message::RemoveSelectedPackages, from the button that is enabled while
\* packages are selected and no removal runs
RemoveSelectedPackages ==
    /\ active = "Installed"
    /\ insatlled_info.selected_packages # {} /\ ~insatlled_info.is_removing
    /\ CanSpawn(1)
    /\ insatlled_info' = [insatlled_info EXCEPT !.is_removing = TRUE]
    /\ tasks' = Append(tasks, Task("remove_packages", "none", None, Some(PageConfig)))
    /\ UNCHANGED <<active, InstalledOnly>>

\* Message::RemovePackagesResult(result): a successful removal ends in
\* ClearCacheAndReload
RemovePackagesResult ==
    \E i \in Running("remove_packages") :
        IF active # "Installed" THEN Dropped(i)
        ELSE \E result \in BatchAnswers :
            /\ IF result.ok
               THEN /\ insatlled_info' =
                          [insatlled_info EXCEPT !.is_removing = FALSE,
                                                 !.selected_packages = {},
                                                 !.is_loading_count = TRUE]
                    /\ tasks' = Append(Remove(tasks, i),
                                       Task("init_installed_counts", "none",
                                            configured_pms(pm_config), Some(pm_config)))
               ELSE /\ insatlled_info' = [insatlled_info EXCEPT !.is_removing = FALSE]
                    /\ tasks' = Remove(tasks, i)
            /\ UNCHANGED <<active, InstalledOnly>>

\* the user opens the Installed page and stays there
InstalledTabs == {"Installed"}
NextInstalled ==
    \/ ConfigLoaded
    \/ Select(InstalledTabs)
    \/ InitInstalledCounts
    \/ Installed_SelectPackageManager
    \/ LoadInstalledResult
    \/ Installed_RefreshInfo
    \/ Installed_TogglePackageSelection
    \/ RemoveSelectedPackages
    \/ RemovePackagesResult

SpecInstalled == UiInit /\ [][NextInstalled]_vars

(***************************************************************************)
(* The Installed page with its widget messages on their way.  A check box  *)
(* of active_filter_view makes a SelectPackageManager message of the state *)
(* the view was built from; the runtime hands it to update after the       *)
(* messages of the tasks that completed before it.                         *)
(***************************************************************************)
\* no widget message waits; the user's next action comes after it
NoWidgetMessage == Running("SelectPackageManager") = {}

\* active_filter_view: on_toggle of the check box of a manager that is a
\* key of installed_packages and is not loading
Installed_OnToggle ==
    /\ InstalledFilterShown
    /\ insatlled_info.installed_packages # EmptyMap
    /\ NoWidgetMessage
    /\ CanSpawn(1)
    /\ \E pm_type \in DOMAIN insatlled_info.installed_packages
                        \ insatlled_info.loading_installed,
          selected \in BOOLEAN :
        tasks' = Append(tasks, Task("SelectPackageManager", pm_type, selected, None))
    /\ UNCHANGED <<active, insatlled_info, InstalledOnly>>

\* Installed::update, Message::SelectPackageManager(pm_type, selected), the
\* message arriving: installed_packages[&pm_type] panics when pm_type is
\* not a key
Installed_SelectPackageManagerArrives ==
    \E i \in Running("SelectPackageManager") :
        LET pm_type == tasks[i].pm
            selected == tasks[i].arg
            running == Remove(tasks, i)
        IN IF active # "Installed" THEN Dropped(i)
           ELSE IF ~selected
           THEN /\ insatlled_info' =
                      [insatlled_info EXCEPT !.selected_managers = @ \ {pm_type}]
                /\ tasks' = running
                /\ UNCHANGED <<active, InstalledOnly>>
           ELSE IF pm_type \notin DOMAIN insatlled_info.installed_packages
           THEN /\ panicked' = TRUE
                /\ insatlled_info' =
                      [insatlled_info EXCEPT !.selected_managers = @ \cup {pm_type}]
                /\ tasks' = running
                /\ UNCHANGED <<active, pm_config, settings, updates_info, finding,
                               finding_info, notUi>>
           ELSE IF insatlled_info.installed_packages[pm_type][1]
                      = Len(insatlled_info.installed_packages[pm_type][2])
           THEN /\ insatlled_info' =
                      [insatlled_info EXCEPT !.selected_managers = @ \cup {pm_type}]
                /\ tasks' = running
                /\ UNCHANGED <<active, InstalledOnly>>
           ELSE /\ insatlled_info' = [insatlled_info EXCEPT
                                         !.selected_managers = @ \cup {pm_type},
                                         !.loading_installed = @ \cup {pm_type}]
                /\ tasks' = Append(running,
                                   Task("load_installed", pm_type, None, Some(PageConfig)))
                /\ UNCHANGED <<active, InstalledOnly>>

\* the user goes to and fro between the page and the one the window opens
\* with
ArrivingTabs == {"Installed", "Finding"}
NextArriving ==
    \/ ~panicked /\ ConfigLoaded
    \/ ~panicked /\ NoWidgetMessage /\ Select(ArrivingTabs)
    \/ ~panicked /\ InitInstalledCounts
    \/ ~panicked /\ Installed_OnToggle
    \/ ~panicked /\ Installed_SelectPackageManagerArrives
    \/ ~panicked /\ LoadInstalledResult
    \/ ~panicked /\ NoWidgetMessage /\ Installed_RefreshInfo

SpecArriving == UiInit /\ [][NextArriving]_vars

(***************************************************************************)
(* The Finding page (content/finding.rs), the page the window opens with   *)
(***************************************************************************)
FindingOnly == <<active, pm_config, settings, insatlled_info, updates_info, panicked, notUi>>
\* what the user types into the search box
SearchInputs == {Chars("a"), Chars(" b "), Chars(" ")}
\* what a search of a manager for a query finds
SearchHits(pm, query) == <<PackageInfo(query, Chars("1.0"), pm, None, None, None, None)>>
SearchAnswers(pm, query) ==
    {Ok(SearchHits(pm, query)), Err("String", Chars("Failed to search"))}

\* Message::SelectPackageManager(pm_type, selected), from a check box of a
\* manager that is not searching
Finding_SelectPackageManager ==
    /\ active = "Finding"
    /\ \E pm_type \in Range(configured_pms(pm_config)) \ finding_info.searching_managers,
          selected \in BOOLEAN :
        finding_info' =
            IF selected
            THEN [finding_info EXCEPT !.selected_managers = @ \cup {pm_type}]
            ELSE LET packages == IF pm_type \in DOMAIN finding_info.search_results
                                 THEN finding_info.search_results[pm_type] ELSE <<>>
                 IN [finding_info EXCEPT
                        !.selected_managers = @ \ {pm_type},
                        !.searching_managers = @ \ {pm_type},
                        !.search_results =
                            [k \in DOMAIN @ \ {pm_type} |-> @[k]],
                        !.selected_packages = @ \ {p.name : p \in Range(packages)}]
    /\ UNCHANGED <<tasks, finding, FindingOnly>>

\* Message::SearchQueryChanged(query)
SearchQueryChanged ==
    /\ active = "Finding"
    /\ \E query \in SearchInputs : finding' = [finding EXCEPT !.search_query = query]
    /\ UNCHANGED <<tasks, finding_info, FindingOnly>>

\* Finding::execute_search_action: one search task per selected manager
execute_search_action(selected_managers, query) ==
    LoadTasks("search", selected_managers, query)

\* Message::ExecuteSearch
ExecuteSearch ==
    /\ active = "Finding"
    /\ LET query == Trim(finding.search_query)
       IN IF query = <<>> \/ finding_info.selected_managers = {}
          THEN UNCHANGED <<tasks, finding, finding_info>>
          ELSE /\ CanSpawn(Cardinality(finding_info.selected_managers))
               /\ finding' = [finding EXCEPT !.last_search_query = query]
               /\ finding_info' =
                     [finding_info EXCEPT
                         !.search_results = EmptyMap,
                         !.selected_packages = {},
                         !.searching_managers = finding_info.selected_managers]
               /\ tasks' = tasks \o execute_search_action(finding_info.selected_managers, query)
    /\ UNCHANGED FindingOnly

\* Message::SearchResult(pm_type, result)
SearchResult ==
    \E i \in Running("search") :
        IF active # "Finding" THEN Dropped(i)
        ELSE \E result \in SearchAnswers(tasks[i].pm, tasks[i].arg) :
            /\ tasks' = Remove(tasks, i)
            /\ finding_info' =
                  [finding_info EXCEPT
                      !.searching_managers = @ \ {tasks[i].pm},
                      !.search_results =
                          MapInsert(@, tasks[i].pm, IF result.ok THEN result.val ELSE <<>>)]
            /\ UNCHANGED <<finding, FindingOnly>>

\* the names of the packages search_results_view lists
FindingVisible ==
    IF \/ finding.last_search_query = <<>>
       \/ finding_info.searching_managers # {}
       \/ finding_info.is_installing
    THEN {}
    ELSE UNION { {p.name : p \in Range(finding_info.search_results[pm])} :
                 pm \in finding_info.selected_managers
                           \cap DOMAIN finding_info.search_results }

\* Message::TogglePackageSelection(package_name, selected)
Finding_TogglePackageSelection ==
    /\ active = "Finding"
    /\ \E package_name \in FindingVisible, selected \in BOOLEAN :
        finding_info' = [finding_info EXCEPT !.selected_packages =
                            IF selected THEN @ \cup {package_name}
                                        ELSE @ \ {package_name}]
    /\ UNCHANGED <<tasks, finding, FindingOnly>>

\* Message::InstallSelectedPackages, from the button that is enabled while
\* packages are selected and no installation runs
InstallSelectedPackages ==
    /\ active = "Finding"
    /\ finding_info.selected_packages # {} /\ ~finding_info.is_installing
    /\ CanSpawn(1)
    /\ finding_info' = [finding_info EXCEPT !.is_installing = TRUE]
    /\ tasks' = Append(tasks, Task("install_packages", "none", None, Some(PageConfig)))
    /\ UNCHANGED <<finding, FindingOnly>>

\* Message::InstallPackagesResult(result): after a successful installation
\* the last query is searched again
InstallPackagesResult ==
    \E i \in Running("install_packages") :
        IF active # "Finding" THEN Dropped(i)
        ELSE \E result \in BatchAnswers :
            /\ IF result.ok /\ finding.last_search_query # <<>>
               THEN /\ finding_info' =
                          [finding_info EXCEPT
                              !.is_installing = FALSE,
                              !.selected_packages = {},
                              !.searching_managers = @ \cup finding_info.selected_managers]
                    /\ tasks' = Remove(tasks, i)
                                  \o execute_search_action(finding_info.selected_managers,
                                                           finding.last_search_query)
               ELSE /\ finding_info' =
                          [finding_info EXCEPT
                              !.is_installing = FALSE,
                              !.selected_packages = IF result.ok THEN {} ELSE @]
                    /\ tasks' = Remove(tasks, i)
            /\ UNCHANGED <<finding, FindingOnly>>

\* the user stays on the page the window opens with
NextFinding ==
    \/ ConfigLoaded
    \/ Finding_SelectPackageManager
    \/ SearchQueryChanged
    \/ ExecuteSearch
    \/ SearchResult
    \/ Finding_TogglePackageSelection
    \/ InstallSelectedPackages
    \/ InstallPackagesResult

SpecFinding == UiInit /\ [][NextFinding]_vars

(***************************************************************************)
(* The grammar of `cargo install --list`, read independently of the two    *)
(* regular expressions: a header is a non-indented line `<name> v<version>`*)
(* with an optional ` (<path>)`, closed by a colon; a binary line is an    *)
(* indented line.                                                          *)
(***************************************************************************)
HeaderFields(line) == SplitWhitespace(SubSeq(line, 1, Len(line) - 1))

IsHeaderLine(line) ==
    /\ line # <<>>
    /\ line[1] \notin WS
    /\ line[Len(line)] = ":"
    /\ Len(HeaderFields(line)) >= 2
    /\ Len(HeaderFields(line)[2]) >= 2
    /\ HeaderFields(line)[2][1] = "v"

HasLocalPath(line) ==
    /\ Len(HeaderFields(line)) >= 3
    /\ HeaderFields(line)[3][1] = "("

IsRegistryHeader(line) == IsHeaderLine(line) /\ ~HasLocalPath(line)

IsBinaryLine(line) == line # <<>> /\ line[1] \in WS /\ Trim(line) # <<>>

HeaderName(line) == HeaderFields(line)[1]
HeaderVersion(line) == Tail(HeaderFields(line)[2])

\* every line is a header, a binary line or blank, and binaries only follow
\* a header
WellFormed(text) ==
    /\ \A i \in 1..Len(text) :
          IsHeaderLine(text[i]) \/ IsBinaryLine(text[i]) \/ Trim(text[i]) = <<>>
    /\ \A i \in 1..Len(text) :
          IsBinaryLine(text[i]) => \E j \in 1..(i - 1) : IsHeaderLine(text[j])

\* the positions of the registry headers of text, in order
RegistryHeaders(text) ==
    SelectSeq([i \in 1..Len(text) |-> i], LAMBDA p : IsRegistryHeader(text[p]))

\* the binaries listed from line p up to the next header line
RECURSIVE BinsFrom(_, _)
BinsFrom(text, p) ==
    IF p > Len(text) \/ IsHeaderLine(text[p]) THEN <<>>
    ELSE (IF IsBinaryLine(text[p]) THEN <<Head(SplitWhitespace(text[p]))>> ELSE <<>>)
         \o BinsFrom(text, p + 1)

\* every header's version is made of digits and dots only
PlainVersions(text) ==
    \A i \in 1..Len(text) :
        IsHeaderLine(text[i]) =>
            \A k \in 1..Len(HeaderVersion(text[i])) : HeaderVersion(text[i])[k] \in DigitDot

\* C9: for every well-formed listing the parser returns, in input order,
\* exactly one record per header line without a local path, with the
\* header's name and its version without the leading v (the last record
\* included, whatever ends the input).
C9_OneRecordPerHeader ==
    (parsed /\ WellFormed(input)) =>
        [k \in 1..Len(crates) |-> <<crates[k].name, crates[k].version>>]
          = [k \in 1..Len(RegistryHeaders(input)) |->
                <<HeaderName(input[RegistryHeaders(input)[k]]),
                  HeaderVersion(input[RegistryHeaders(input)[k]])>>]

\* C10: each returned record's bins are the indented lines that follow its
\* own header up to the next header line, so the binaries under a
\* local-path header belong to no returned record.  Stated on the listings
\* whose versions are plain (digits and dots), where the records returned
\* are exactly the registry headers.
C10_BinsFollowOwnHeader ==
    (parsed /\ WellFormed(input) /\ PlainVersions(input)) =>
        /\ Len(crates) = Len(RegistryHeaders(input))
        /\ \A k \in 1..Len(crates) :
              crates[k].bins = BinsFrom(input, RegistryHeaders(input)[k] + 1)

(***************************************************************************)
(* Properties of the backend calls  (Spec)                                 *)
(***************************************************************************)

\* the command a list operation is built on, with what it printed; the Go
\* backend runs `go version -m` once per binary it finds
UnderlyingRuns ==
    CASE op.pm = "Dnf" /\ op.name = "list_updates"        -> {op.env.check}
      [] op.pm = "Dnf" /\ op.name = "list_installed"      -> {op.env.rpmqa}
      [] op.pm = "Flatpak" /\ op.name = "list_updates"    -> {op.env.updates}
      [] op.pm = "Flatpak" /\ op.name = "list_installed"  -> {op.env.list}
      [] op.pm = "Homebrew" /\ op.name = "list_updates"   -> {op.env.out}
      [] op.pm = "Homebrew" /\ op.name = "list_installed" -> {op.env.info}
      [] op.pm = "Cargo"                                  -> {op.env.list}
      [] op.pm = "Go" -> {op.env.version[p] : p \in DOMAIN op.env.version}

\* C1: for every backend, a list operation (list_installed, list_updates)
\* whose underlying command exits successfully with empty standard output
\* returns Ok with an empty collection, never an error.
C1_EmptyOutputIsEmptyList ==
    (/\ op.name \in {"list_installed", "list_updates"}
     /\ \A run \in UnderlyingRuns : run.spawn /\ run.code = 0 /\ run.stdout = <<>>)
        => ret = Ok(<<>>)

\* C2: for every backend, every PackageUpdate returned by list_updates has
\* current_version # new_version: an entry whose two versions are identical
\* is filtered out before the result is returned.
C2_UpdatesChangeTheVersion ==
    (op.name = "list_updates" /\ ret.ok) =>
        \A i \in 1..Len(ret.val) : ret.val[i].current_version # ret.val[i].new_version

\* C3: for each of the five backends, none of uninstall_package,
\* uninstall_packages, update_packages and install_packages, called through
\* the dispatcher, returns the trait default's "not implemented" UnknownError.
C3_MutationsAreOverridden ==
    op.name \in {"uninstall_package", "uninstall_packages", "update_packages",
                 "install_packages"}
        => ~(ret.kind = "UnknownError" /\ Contains(ret.msg, Chars("not implemented")))

\* C4: every non-zero exit of a process spawned by a backend operation is
\* reported: the operation returns an error whose message embeds the
\* standard-error text captured from that process.
C4_NonZeroExitIsReported ==
    \A i \in 1..Len(procs) :
        (procs[i].spawn /\ procs[i].code # 0)
            => (~ret.ok /\ Contains(ret.msg, procs[i].stderr))

\* the lines of a check-upgrade report that describe a package: neither
\* blank nor a banner, with a name.arch token and a version token
IsReportEntry(line) ==
    /\ Len(SplitWhitespace(line)) >= 2
    /\ ~StartsWith(Trim(line), Chars("Updating and loading repositories:"))
    /\ ~StartsWith(Trim(line), Chars("Repositories loaded."))
\* the name of a package line: its first token up to the last '.'
ReportName(line) ==
    LET token == SplitWhitespace(line)[1]
        dots  == {i \in 1..Len(token) : token[i] = "."}
    IN IF dots = {} THEN token
       ELSE SubSeq(token, 1, (CHOOSE i \in dots : \A k \in dots : k <= i) - 1)
ReportVersion(line) == SplitWhitespace(line)[2]
\* the first line of the report that carries the name
FirstEntryOf(report, name) ==
    CHOOSE i \in 1..Len(report) :
        /\ IsReportEntry(report[i]) /\ ReportName(report[i]) = name
        /\ \A k \in 1..(i - 1) :
              ~(IsReportEntry(report[k]) /\ ReportName(report[k]) = name)

\* C7: DnfManager::list_updates returns at most one PackageUpdate per
\* package name (the report token with its architecture suffix stripped
\* at the last '.'); when several report lines carry the same name, the
\* returned entry carries the new_version of the first such line.
C7_OneUpdatePerName ==
    (op.pm = "Dnf" /\ op.name = "list_updates" /\ ret.ok) =>
        /\ \A i, k \in 1..Len(ret.val) : ret.val[i].name = ret.val[k].name => i = k
        /\ \A i \in 1..Len(ret.val) :
              /\ \E n \in 1..Len(op.env.check.stdout) :
                    /\ IsReportEntry(op.env.check.stdout[n])
                    /\ ReportName(op.env.check.stdout[n]) = ret.val[i].name
              /\ ret.val[i].new_version =
                    ReportVersion(op.env.check.stdout[
                        FirstEntryOf(op.env.check.stdout, ret.val[i].name)])

\* a report with two lines for bash, of different versions, answered by
\* the single entry of the first
C7_Witness ==
    /\ op.pm = "Dnf" /\ op.name = "list_updates" /\ ret.ok
    /\ op.env.check.stdout = <<Chars("bash.i686  5.3-1  updates"),
                               Chars("bash.x86_64  5.2-1  updates"),
                               Chars("vim  9.1  updates")>>
    /\ Len(ret.val) = 2
    /\ ret.val[1].name = Chars("bash") /\ ret.val[1].new_version = Chars("5.3-1")

\* C8: DnfManager::count_installed returns exactly len(list_installed)
\* whenever the fast-path count command (sh -c "rpm -qa | wc -l") fails
\* or is unavailable, and returns an error only if list_installed fails.
C8_FallbackToListLength ==
    (/\ op.pm = "Dnf" /\ op.name = "count_installed"
     /\ (~op.env.sh.spawn \/ op.env.sh.code # 0))
        => IF DnfManager_list_installed(op.env.rpmqa).ret.ok
           THEN ret = Ok(Len(DnfManager_list_installed(op.env.rpmqa).ret.val))
           ELSE ~ret.ok

(***************************************************************************)
(* Properties of the batch mutations  (SpecBatch)                          *)
(***************************************************************************)

\* C5: when a page applies one batch mutation to packages of several
\* managers, a failure of one manager's call does not prevent the calls
\* for the remaining managers from being made.
C5_EveryManagerIsCalled ==
    outcome # None => DOMAIN batch.groups \subseteq CalledManagers

(***************************************************************************)
(* Properties of the start-up counts  (SpecCounts)                         *)
(***************************************************************************)

\* the configured managers: the system manager first, then the
\* application managers in the order of the config
ConfiguredManagers(config) ==
    (IF config.system_manager = None THEN <<>>
     ELSE <<config.system_manager[1].manager_type>>)
    \o [i \in 1..Len(config.app_managers) |-> config.app_managers[i].manager_type]

\* C6: init_installed_counts and init_updates_counts return exactly one
\* slot per configured manager (the system manager first, then the app
\* managers in config order); a manager whose call fails gets 0 / an empty
\* list in its own slot, and every other manager's slot holds the value its
\* own call returned, for any interleaving of the joined calls.
C6_OneSlotPerManager ==
    counts # None =>
        /\ Len(counts[1]) = Len(ConfiguredManagers(join.config))
        /\ \A i \in 1..Len(counts[1]) :
              /\ counts[1][i][1] = ConfiguredManagers(join.config)[i]
              /\ counts[1][i][2] =
                    IF join.results[i].ok THEN join.results[i].val
                    ELSE IF join.task = "init_installed_counts" THEN 0 ELSE <<>>

\* three managers, the second failing, completed in the order 3, 1, 2
C6_Witness ==
    /\ counts # None
    /\ Len(join.pms) = 3
    /\ join.results[1].ok /\ ~join.results[2].ok /\ join.results[3].ok
    /\ [k \in 1..Len(done) |-> done[k].index] = <<3, 1, 2>>

(***************************************************************************)
(* The shape of a `brew outdated --verbose` line, read position by         *)
(* position: the first '<', and left of it the last '(' and the last ')'.  *)
(***************************************************************************)
Positions(s, c) == {i \in 1..Len(s) : s[i] = c}
First(S) == CHOOSE i \in S : \A k \in S : i <= k
Last(S) == CHOOSE i \in S : \A k \in S : k <= i
\* s without the white space at its two ends
Stripped(s) ==
    LET inked == {i \in 1..Len(s) : s[i] \notin WS}
    IN IF inked = {} THEN <<>> ELSE SubSeq(s, First(inked), Last(inked))
\* the text left of the first '<' of the line
BrewLeft(line) == SubSeq(line, 1, First(Positions(line, "<")) - 1)
BrewRight(line) == SubSeq(line, First(Positions(line, "<")) + 1, Len(line))
\* the line has a '<' and a parenthesis pair left of it
BrewIsUpdateLine(line) ==
    /\ Positions(line, "<") # {}
    /\ Positions(BrewLeft(line), "(") # {}
    /\ Positions(BrewLeft(line), ")") # {}
    /\ Last(Positions(BrewLeft(line), "(")) < Last(Positions(BrewLeft(line), ")"))
BrewUpdateOf(line) ==
    LET left == BrewLeft(line)
        open == Last(Positions(left, "("))
        shut == Last(Positions(left, ")"))
    IN PackageUpdate(Stripped(SubSeq(left, 1, open - 1)),
                     Stripped(SubSeq(left, open + 1, shut - 1)),
                     Stripped(BrewRight(line)))

\* C11: for every `brew outdated --verbose` line of the shape
\* `<name> (<current>) < <new>`, HomebrewManager::list_updates yields exactly
\* one PackageUpdate{name, <current>, <new>} (whitespace trimmed), name and
\* current being delimited by the last parenthesis pair left of the first
\* '<'; a line without '<', or whose left side has no parenthesized
\* version, yields no update.
C11_OneUpdatePerOutdatedLine ==
    (op.pm = "Homebrew" /\ op.name = "list_updates" /\ ret.ok) =>
        LET shaped == SelectSeq(op.env.out.stdout, BrewIsUpdateLine)
        IN ret.val = [i \in 1..Len(shaped) |-> BrewUpdateOf(shaped[i])]

\* a line with two parenthesis pairs and two '<' between a line without a
\* parenthesized version and a plain one
C11_Witness ==
    /\ op.pm = "Homebrew" /\ op.name = "list_updates" /\ ret.ok
    /\ op.env.out.stdout = <<Chars("git 2.43 < 2.44"), Chars(" a (x) (1.0)  <  2 <3 ")>>
    /\ ret.val = <<PackageUpdate(Chars("a (x)"), Chars("1.0"), Chars("2 <3"))>>

(***************************************************************************)
(* The build information read by its lines: the fields of a line are what  *)
(* lies between its tabs, the first of them the line's key.                *)
(***************************************************************************)
GoFields(line) == Split(TrimStart(line), "\t")
GoKeyLines(lines, key) ==
    SelectSeq(lines, LAMBDA l : Len(GoFields(l)) >= 2 /\ GoFields(l)[1] = Chars(key))
\* the value of the path key, None without such a line
GoPathValue(lines) ==
    LET ls == GoKeyLines(lines, "path")
    IN IF ls = <<>> THEN None ELSE Some(GoFields(ls[1])[2])
\* the third field of the mod line when it has the shape of a version
GoModVersion(lines) ==
    LET ls == SelectSeq(GoKeyLines(lines, "mod"),
                        LAMBDA l : Len(GoFields(l)) >= 3 /\ go_semver_token(GoFields(l)[3]))
    IN IF ls = <<>> THEN None ELSE Some(GoFields(ls[1])[3])

\* C12: extract_module_path returns the value of the path key and
\* extract_version the whole third field of the mod line, suffix included;
\* each returns None when the text has no such key or no version of that shape.
C12_BuildInfoFields ==
    extracted # None =>
        /\ extracted[1].module_path = GoPathValue(build_info)
        /\ extracted[1].version = GoModVersion(build_info)
C12_Witness ==
    /\ extracted # None
    /\ Chars("\tmod\tex.com/tool\tv2.40.1-pre.0") \in {build_info[i] : i \in 1..Len(build_info)}
    /\ Chars("\tdep\tex.com/x/mod\tv0.1.0\th1:y") \in {build_info[i] : i \in 1..Len(build_info)}
    /\ extracted[1] = [module_path |-> Some(Chars("ex.com/cmd/xpath")),
                       version |-> Some(Chars("v2.40.1-pre.0"))]

\* the elements of a sequence with the number of times each occurs
Occurrences(seq) == [x \in {seq[i] : i \in 1..Len(seq)} |->
                        Cardinality({i \in 1..Len(seq) : seq[i] = x})]
SameUpToOrdering(a, b) ==
    IF a.ok /\ b.ok THEN Occurrences(a.val) = Occurrences(b.val) ELSE a = b

ManagerTypes(config) == configured_pms(config)
EachTypeOnce(config) ==
    \A i, k \in 1..Len(ManagerTypes(config)) :
        i # k => ManagerTypes(config)[i] # ManagerTypes(config)[k]

\* C14: whatever Settings messages arrive, in whatever order, no manager
\* type comes to appear twice across system_manager and app_managers.
C14_EachTypeOnce == EachTypeOnce(pm_config)

\* C15: uninstall_packages removes from the directory list_installed scans
\* under the same config, so a binary list_installed shows can be removed
\* by its name.
C15_UninstallWhereListed ==
    (op.pm = "Go" /\ op.name = "uninstall_packages") =>
        LET bin_dir == get_go_bin_dir(op.config, op.env.osenv)
            listed  == list_installed_binaries(op.config, op.env.osenv, op.env.fs)
            run     == GoManager_uninstall_packages(op.config, op.names, op.env)
        IN /\ \A path \in run.removed : StartsWith(path, bin_dir \o Chars("/"))
           /\ (Len(op.names) = 1 /\ \E i \in 1..Len(listed) : listed[i].name = op.names[1])
                 => /\ ret.ok
                    /\ run.removed = {bin_dir \o Chars("/") \o op.names[1]}

\* the JSON path of HomebrewManager::list_installed failed: `brew info
\* --json=v2 --installed` ran and exited non-zero, or printed what is not JSON
BrewJsonPathFailed(env) ==
    /\ env.info.spawn
    /\ \/ env.info.code # 0
       \/ ~serde_json_from_str(TextOf(env.info.stdout)).ok

\* C16: whenever the JSON path fails, list_installed returns the packages of
\* the `brew list --versions` listing, and an error only when that listing
\* fails too.
C16_FallbackWheneverJsonFails ==
    (op.pm = "Homebrew" /\ op.name = "list_installed" /\ BrewJsonPathFailed(op.env)) =>
        LET fall == HomebrewManager_get_all_installed_info(op.env.versions).ret
        IN IF fall.ok
           THEN ret = Ok(brew_fallback_packages(MapIter(fall.val, op.env.order)))
           ELSE ~ret.ok

(***************************************************************************)
(* The batch mutations of Cargo, Homebrew and Go, one name after another   *)
(***************************************************************************)
PerNameManagers == {"Cargo", "Homebrew", "Go"}
BatchMutations == {"install_packages", "update_packages", "uninstall_packages"}
Least(S) == CHOOSE i \in S : \A k \in S : i <= k

\* the names whose process fails, for the calls that spawn one per name
FailingRuns == {i \in 1..Len(op.names) : ~op.env.outs[i].spawn \/ op.env.outs[i].code # 0}
\* the names whose file cannot be removed, for Go's uninstall_packages
GoBinaryPath(i) ==
    go_uninstall_dir(op.env.osenv) \o Chars("/") \o go_binary_name(op.names[i])
FailingRemovals ==
    {i \in 1..Len(op.names) :
        \/ ~FileExists(op.env.fs, go_uninstall_dir(op.env.osenv), go_binary_name(op.names[i]))
        \/ \E j \in 1..(i - 1) : GoBinaryPath(j) = GoBinaryPath(i)}
IsGoRemoval == op.pm = "Go" /\ op.name = "uninstall_packages"
FailingNames == IF IsGoRemoval THEN FailingRemovals ELSE FailingRuns
\* the names the call got to: all of them, or those up to the first failure
Attempted == IF FailingNames = {} THEN Len(op.names) ELSE Least(FailingNames)

\* C17: the names are taken in list order, one at a time; the call stops at
\* the first name that fails and returns an error for it, leaves what it did
\* for the earlier names in place, and returns Ok only if every name succeeded.
C17_StopAtFirstFailure ==
    (op.pm \in PerNameManagers /\ op.name \in BatchMutations) =>
        /\ ret.ok <=> FailingNames = {}
        /\ IF IsGoRemoval
           THEN /\ procs = <<>>
                /\ GoManager_uninstall_packages(op.config, op.names, op.env).removed
                      = {GoBinaryPath(i) : i \in (1..Attempted) \ FailingNames}
           ELSE /\ Len(procs) = Attempted
                /\ \A i \in 1..Attempted :
                      /\ StartsWith(procs[i].args[Len(procs[i].args)], op.names[i])
                      /\ procs[i].spawn = op.env.outs[i].spawn
                      /\ procs[i].code = op.env.outs[i].code
        /\ (~ret.ok /\ ret.kind = "UnknownError") =>
              Contains(ret.msg, IF IsGoRemoval THEN go_binary_name(op.names[Attempted])
                                ELSE op.names[Attempted])
C17_Witness ==
    /\ op.pm = "Cargo" /\ op.name = "uninstall_packages"
    /\ op.names = <<Chars("tool"), Chars("ex.com/old")>>
    /\ op.env.outs = <<Exit(1, <<>>, Stderr), Success>>
    /\ Len(procs) = 1
    /\ ~ret.ok /\ Contains(ret.msg, Chars("tool"))

\* C18: a task of the Updates page has its result applied whatever tab is
\* shown when it arrives: a manager put into loading_updates leaves it once
\* its load task has completed, and is_updating is false again once the
\* update task has completed.
C18_ResultsAreApplied ==
    /\ \A pm \in PackageManagerType :
          (pm \in updates_info.loading_updates) ~> (pm \notin updates_info.loading_updates)
    /\ updates_info.is_updating ~> ~updates_info.is_updating

\* C19: on the Installed page, once the counts asked for by RefreshInfo or by
\* a successful removal have been delivered, no manager is left in
\* loading_installed, but for those whose own load task still runs: the
\* check boxes can be used again.
C19_NothingLeftLoading ==
    (/\ active = "Installed"
     /\ insatlled_info.has_loading_count /\ ~insatlled_info.is_loading_count
     /\ Running("init_installed_counts") = {})
    => \A pm \in insatlled_info.loading_installed :
          \E i \in Running("load_installed") : tasks[i].pm = pm

\* C20: on the Finding page, once no search task is left, search_results
\* holds, for every selected manager it has an entry for, what the search
\* for last_search_query found (nothing, when that search failed); and
\* while a search task is still running searching_managers is not empty.
C20_LatestQueryWins ==
    /\ (active = "Finding" /\ Running("search") = {})
       => \A pm \in finding_info.selected_managers \cap DOMAIN finding_info.search_results :
             finding_info.search_results[pm]
                \in {SearchHits(pm, finding.last_search_query), <<>>}
    /\ (active = "Finding" /\ finding_info.searching_managers = {})
       => Running("search") = {}

\* the tasks that call a backend for a page
PageBackendTasks ==
    {"load_updates", "update_packages", "load_installed", "remove_packages",
     "search", "install_packages"}

\* C21: every backend call a page starts is handed the application's
\* pm_config, as the count tasks are.  (While a page's task runs pm_config
\* does not change: the config is loaded once, before the page can start
\* one.)
C21_PagesUseTheConfig ==
    \A i \in 1..Len(tasks) :
        tasks[i].kind \in PageBackendTasks => tasks[i].config = Some(pm_config)

\* the distinct package names of a check-upgrade report
ReportNames(report) ==
    {ReportName(report[n]) : n \in {k \in 1..Len(report) : IsReportEntry(report[k])}}
\* the `rpm -q` lookup of a name fails: rpm cannot be run, or exits non-zero
LookupFails(db, name) == ~RpmQuery(db, name).spawn \/ RpmQuery(db, name).code # 0

\* C22: whenever `dnf check-upgrade` could be run, DnfManager::list_updates
\* returns Ok with one PackageUpdate for every distinct package name of the
\* report, whatever the rpm lookups answer: the current_version of a name
\* whose lookup fails is "unknown", that of the others is the trimmed
\* output of the lookup.
C22_FailedLookupIsUnknown ==
    (op.pm = "Dnf" /\ op.name = "list_updates" /\ op.env.check.spawn) =>
        /\ ret.ok
        /\ {ret.val[i].name : i \in 1..Len(ret.val)} = ReportNames(op.env.check.stdout)
        /\ Len(ret.val) = Cardinality(ReportNames(op.env.check.stdout))
        /\ \A i \in 1..Len(ret.val) :
              ret.val[i].current_version =
                  IF LookupFails(op.env.rpmq, ret.val[i].name)
                  THEN Chars("unknown")
                  ELSE Trim(TextOf(RpmQuery(op.env.rpmq, ret.val[i].name).stdout))

\* rpm cannot be run for bash, the first name of the report, and answers
\* for vim, the second
C22_Witness ==
    /\ op.pm = "Dnf" /\ op.name = "list_updates" /\ ret.ok
    /\ op.env.check.stdout = <<Chars("bash.x86_64  5.2-1  updates"),
                               Chars("vim  9.1  updates")>>
    /\ LookupFails(op.env.rpmq, Chars("bash")) /\ ~LookupFails(op.env.rpmq, Chars("vim"))
    /\ Len(ret.val) = 2
    /\ ret.val[1].current_version = Chars("unknown")
    /\ ret.val[2].current_version = Chars("9.1")

\* C23: a manager's update_packages, uninstall_packages or install_packages
\* is handed a name only if the user ticked the box of that name in the
\* section of that manager.
C23_OnlyWhatWasTicked ==
    \A i \in 1..Len(called) :
        \A k \in 1..Len(called[i][2]) :
            <<called[i][1], called[i][2][k]>> \in batch.clicks

\* the verb dnf is given for a batch mutation
DnfVerb(method) ==
    CASE method = "uninstall_packages" -> Chars("remove")
      [] method = "update_packages"    -> Chars("upgrade")
      [] method = "install_packages"   -> Chars("install")

\* C24: DnfManager::install_packages, update_packages and
\* uninstall_packages each spawn exactly one process: pkexec with the
\* resolved dnf path, the verb, -y and all names of the batch in list
\* order; the call returns an UnknownError that embeds the captured
\* standard error exactly when that process exits non-zero.
C24_OnePrivilegedProcess ==
    (op.pm = "Dnf" /\ op.name \in BatchMutations) =>
        /\ Len(procs) = 1
        /\ procs[1].prog = Chars("pkexec")
        /\ procs[1].args =
              <<UnwrapOr(get_package_path(op.config, "Dnf"), Chars("dnf")),
                DnfVerb(op.name), Chars("-y")>> \o op.names
        /\ (~ret.ok /\ ret.kind = "UnknownError" /\ Contains(ret.msg, procs[1].stderr))
              <=> (procs[1].spawn /\ procs[1].code # 0)

\* an upgrade of two packages through the custom dnf path that exits
\* non-zero
C24_Witness ==
    /\ op.pm = "Dnf" /\ op.name = "update_packages"
    /\ Len(op.names) = 2
    /\ op.config = CustomConfig
    /\ procs[1].args[1] = Chars("/opt/dnf") /\ Len(procs[1].args) = 5
    /\ procs[1].spawn /\ procs[1].code # 0
    /\ ~ret.ok /\ ret.kind = "UnknownError"

\* the tokens `go list -m -versions` printed for a module: the module path
\* first, then its versions
GoListed(answer) == SplitWhitespace(TextOf(answer.stdout))

\* C25: the new_version of every PackageUpdate of GoManager::list_updates
\* is the last of the version tokens `go list -m -versions` lists for a
\* module, never the module path; a module without a listed version gives
\* no update.
C25_NewVersionIsAVersion ==
    (op.pm = "Go" /\ op.name = "list_updates" /\ ret.ok) =>
        \A i \in 1..Len(ret.val) :
            \E m \in DOMAIN op.env.versions :
                /\ Len(GoListed(op.env.versions[m])) >= 2
                /\ ret.val[i].new_version
                      = GoListed(op.env.versions[m])[Len(GoListed(op.env.versions[m]))]

\* the command name of a backend's tool when no custom path is configured
DefaultCommand(pm) ==
    CASE pm = "Dnf"      -> Chars("dnf")
      [] pm = "Flatpak"  -> Chars("flatpak")
      [] pm = "Homebrew" -> Chars("brew")
      [] pm = "Cargo"    -> Chars("cargo")
      [] pm = "Go"       -> Chars("go")
\* the executable the config resolves for a backend
ResolvedCommand(config, pm) == UnwrapOr(get_package_path(config, pm), DefaultCommand(pm))

\* C26: within one backend operation every process that runs the backend's
\* own tool runs the executable resolved from the config: the custom path
\* when one is set, the default command name only when none is set; the
\* helper invocations included.
C26_ResolvedToolEverywhere ==
    op.name # "none" =>
        \A i \in 1..Len(procs) :
            procs[i].prog \in {DefaultCommand(op.pm), ResolvedCommand(op.config, op.pm)}
                => procs[i].prog = ResolvedCommand(op.config, op.pm)

\* C27: Installed::update never panics: a SelectPackageManager(pm, true)
\* message names a key of installed_packages when it is processed, however
\* it is interleaved with the InitInstalledCounts messages that replace the
\* map.
C27_SelectedManagerIsAKey == ~panicked

\* C28: no batch mutation is called with an empty name list: every
\* update_packages / uninstall_packages / install_packages call of the three
\* page actions receives at least one package name, also when the selected
\* names belong to managers that are not selected.
C28_NoEmptyNameList ==
    \A i \in 1..Len(called) : called[i][2] # <<>>

\* a task that ran to its end, with a box ticked under a manager that is
\* not selected, a call made, and a selected manager with listed packages
\* left out because none of its names is selected
C28_Witness ==
    /\ batch.page # "none"
    /\ outcome = Some(Ok(Unit))
    /\ called # <<>>
    /\ \E c \in batch.clicks : c[1] \notin batch.managers
    /\ \E pm \in (batch.managers \cap DOMAIN batch.listing) \ CalledManagers :
           batch.listing[pm] # <<>>

\* the sources of the Go binary directory, highest priority first, each
\* present or absent
GoBinSources(config, osenv) ==
    << config.go_bin_dir,
       osenv.GOBIN,
       IF osenv.GOPATH = None THEN None ELSE Some(osenv.GOPATH[1] \o Chars("/bin")),
       IF osenv.HOME = None THEN None ELSE Some(osenv.HOME[1] \o Chars("/go/bin")) >>
\* the paths `go version -m` was run on, in order
GoScanned ==
    LET runs == SelectSeq(procs, LAMBDA p : p.prog = Chars("go") /\ Len(p.args) = 3
                                             /\ p.args[1] = Chars("version"))
    IN [i \in 1..Len(runs) |-> runs[i].args[3]]
\* the regular files of a directory, as paths
GoFilesOf(fs, dir) ==
    LET files == IF dir \in DOMAIN fs THEN SelectSeq(fs[dir], LAMBDA e : e.is_file)
                 ELSE <<>>
    IN [i \in 1..Len(files) |-> dir \o Chars("/") \o files[i].name]

\* C30: the Go binary directory is the go_bin_dir override when set, else
\* GOBIN when set, else GOPATH + "/bin" when GOPATH is set, else
\* <home>/go/bin: the directory list_installed and list_updates scan is the
\* one of the first source that is present.
C30_FirstPresentSource ==
    (op.pm = "Go" /\ op.name \in {"list_installed", "list_updates"}) =>
        LET sources == GoBinSources(op.config, op.env.osenv)
        IN \A i \in 1..Len(sources) :
              (sources[i] # None /\ \A k \in 1..(i - 1) : sources[k] = None)
                 => GoScanned = GoFilesOf(op.env.fs, sources[i][1])

\* a scan of GOPATH/bin, the override and GOBIN being absent
C30_Witness ==
    /\ op.pm = "Go" /\ op.name = "list_updates"
    /\ op.config.go_bin_dir = None
    /\ op.env.osenv.GOBIN = None
    /\ op.env.osenv.GOPATH # None
    /\ GoScanned # <<>>
    /\ \A i \in 1..Len(GoScanned) : StartsWith(GoScanned[i], op.env.osenv.GOPATH[1])

\* the rows of the installed listing: the lines below the heading, each as
\* its one to three whitespace-separated columns
FlatpakInstalledRows(out) ==
    LET body == IF out.stdout = <<>> THEN <<>> ELSE Tail(out.stdout)
    IN {r \in {SplitWhitespace(body[i]) : i \in 1..Len(body)} : Len(r) \in 1..3}
\* what the claim says of a row: "<version> (<branch>)" with a version,
\* "branch: <branch>" without
FlatpakRowVersion(r) ==
    CASE Len(r) = 3 -> r[2] \o Chars(" (") \o r[3] \o Chars(")")
      [] Len(r) = 2 -> Chars("branch: ") \o r[2]
      [] Len(r) = 1 -> Chars("branch: unknown")

\* C29: FlatpakManager::list_updates takes current_version from the
\* installed listing by application ID: "<version> (<branch>)" when the
\* listing has a version for the ID, "branch: <branch>" when it has none,
\* and "unknown" exactly when the ID does not occur in the listing.
C29_CurrentVersionFromInstalled ==
    (op.pm = "Flatpak" /\ op.name = "list_updates" /\ ret.ok) =>
        \A k \in 1..Len(ret.val) :
            LET rows == {r \in FlatpakInstalledRows(op.env.installed) :
                            r[1] = ret.val[k].name}
            IN IF rows = {} THEN ret.val[k].current_version = Chars("unknown")
               ELSE /\ ret.val[k].current_version # Chars("unknown")
                    /\ \E r \in rows : ret.val[k].current_version = FlatpakRowVersion(r)

\* two updates, one of an application the installed listing has with its
\* version, one of an application it does not have
C29_Witness ==
    /\ op.pm = "Flatpak" /\ op.name = "list_updates" /\ ret.ok
    /\ \E k \in 1..Len(ret.val) : ret.val[k].current_version = Chars("1.0 (stable)")
    /\ \E k \in 1..Len(ret.val) :
          /\ ret.val[k].current_version = Chars("unknown")
          /\ FlatpakInstalledRows(op.env.installed) # {}

====
